---- MODULE Spec2Model ----
(***************************************************************************)
(* A model of the hier crate: the class cache (fetch_class and friends),   *)
(* the memoized class entries (ClassInternal) and common_superclass.       *)
(*                                                                         *)
(* Strings are sequences of tokens ("java", ".", "lang", "[]", ...), so    *)
(* that the textual conversions of the code (replace, as_jni) are          *)
(* computed and not assumed.  The JVM is a fixed class hierarchy.          *)
(***************************************************************************)
EXTENDS Integers, Sequences, FiniteSets, TLC

\* Total number of API calls started in one behaviour.
MaxCalls == 4

\* Largest number of array dimensions of a spelling.
MaxDim == 2

Threads == {"t1", "t2"}
NoThread == "none"

Range(s) == {s[i] : i \in DOMAIN s}

(***************************************************************************)
(* Strings                                                                 *)
(***************************************************************************)
\* str::replace(from, to), token by token.
Replace(s, from, to) == [i \in 1..Len(s) |-> IF s[i] = from THEN to ELSE s[i]]

\* str::replace(tok, "")
Remove(s, tok) == SelectSeq(s, LAMBDA x : x # tok)

\* str::matches(tok).count()
Count(s, tok) == Len(s) - Len(Remove(s, tok))

\* str::repeat
Repeat(tok, n) == [i \in 1..n |-> tok]

\* The JVM's spelling of a qualified name: segments joined by a separator.
Join(segs, sep) ==
    [i \in 1..(2 * Len(segs) - 1) |-> IF i % 2 = 1 THEN segs[(i + 1) \div 2] ELSE sep]

(***************************************************************************)
(* classpath.rs                                                            *)
(***************************************************************************)
PRIMITIVE_TYPES_TO_DESC ==
    [void |-> "V", boolean |-> "Z", byte |-> "B", char |-> "C", short |-> "S",
     int |-> "I", long |-> "J", float |-> "F", double |-> "D"]

DESC_TO_WRAPPER_CLASS_CP ==
    [V |-> <<"java", "/", "lang", "/", "Void">>,
     Z |-> <<"java", "/", "lang", "/", "Boolean">>,
     B |-> <<"java", "/", "lang", "/", "Byte">>,
     C |-> <<"java", "/", "lang", "/", "Character">>,
     S |-> <<"java", "/", "lang", "/", "Short">>,
     I |-> <<"java", "/", "lang", "/", "Integer">>,
     J |-> <<"java", "/", "lang", "/", "Long">>,
     F |-> <<"java", "/", "lang", "/", "Float">>,
     D |-> <<"java", "/", "lang", "/", "Double">>]

\* PRIMITIVE_TYPES_TO_DESC.contains_key(s)
IsPrimitiveName(s) == Len(s) = 1 /\ s[1] \in DOMAIN PRIMITIVE_TYPES_TO_DESC

\* Mutant of ConvertJavaToJni: every array element gets the L...; envelope.
ConvertJavaToJni_envelope(cp) ==
    LET jni_cp == Remove(Replace(cp, ".", "/"), "[]")
        array_dim == Count(cp, "[]")
    IN  IF array_dim > 0
        THEN Repeat("[", array_dim) \o <<"L">> \o jni_cp \o <<";">>
        ELSE jni_cp

\* ClassPath::Java(cp).convert(): the JNI spelling of a Java spelling.
ConvertJavaToJni(cp) ==
    LET jni_cp == Remove(Replace(cp, ".", "/"), "[]")
        array_dim == Count(cp, "[]")
    IN  IF array_dim > 0
        THEN IF IsPrimitiveName(jni_cp)
             THEN Repeat("[", array_dim) \o <<PRIMITIVE_TYPES_TO_DESC[jni_cp[1]]>>
             ELSE Repeat("[", array_dim) \o <<"L">> \o jni_cp \o <<";">>
        ELSE jni_cp

\* PRIMITIVE_TYPES_TO_DESC.values().any(|desc| java_cp.starts_with(desc)): every
\* descriptor is one character, the first token of the spelling is compared.
StartsWithDesc(java_cp) ==
    /\ java_cp # <<>>
    /\ java_cp[1] \in {PRIMITIVE_TYPES_TO_DESC[p] : p \in DOMAIN PRIMITIVE_TYPES_TO_DESC}

\* chars().take_while(|c| *c != ';')
RECURSIVE TakeUntilSemi(_)
TakeUntilSemi(s) ==
    IF s = <<>> \/ s[1] = ";" THEN <<>> ELSE <<s[1]>> \o TakeUntilSemi(Tail(s))

\* ClassPath::JNI(cp).convert(): the Java spelling of a JNI spelling.
ConvertJniToJava(cp) ==
    LET java_cp == Remove(Replace(cp, "/", "."), "[")
        array_dim == Count(cp, "[")
        elem == IF StartsWithDesc(java_cp) THEN java_cp ELSE TakeUntilSemi(Tail(java_cp))
    IN  IF array_dim > 0 THEN elem \o Repeat("[]", array_dim) ELSE java_cp

\* ClassPath values: Java(cp) and JNI(cp)
Java(cp) == [dialect |-> "Java", cp |-> cp]
JNI(cp) == [dialect |-> "JNI", cp |-> cp]

\* ClassPath::convert
convert(self) ==
    IF self.dialect = "Java" THEN JNI(ConvertJavaToJni(self.cp))
    ELSE Java(ConvertJniToJava(self.cp))

\* ClassPath::from(&str) is ClassPath::Java; as_jni converts a Java spelling.
as_jni(cp) == ConvertJavaToJni(cp)

(***************************************************************************)
(* model/modifiers.rs                                                      *)
(***************************************************************************)
\* u16 & u16
RECURSIVE BitAnd(_, _)
BitAnd(x, y) ==
    IF x = 0 \/ y = 0 THEN 0
    ELSE (x % 2) * (y % 2) + 2 * BitAnd(x \div 2, y \div 2)

\* u16 | u16
RECURSIVE BitOr(_, _)
BitOr(x, y) ==
    IF x = 0 THEN y
    ELSE IF y = 0 THEN x
    ELSE (IF x % 2 = 1 \/ y % 2 = 1 THEN 1 ELSE 0) + 2 * BitOr(x \div 2, y \div 2)

\* The flags of bitflags! { struct Modifiers: u16 }
Modifiers ==
    [Public |-> 1, Private |-> 2, Protected |-> 4, Static |-> 8, Final |-> 16,
     Synchronized |-> 32, Volatile |-> 64, Transient |-> 128, Native |-> 256,
     Interface |-> 512, Abstract |-> 1024, Strict |-> 2048]

\* The u16 constants of impl Modifiers that are not flags of the bitflags struct.
ModifierBits ==
    [Bridge |-> 64, Varargs |-> 128, Synthetic |-> 4096, Annotation |-> 8192,
     Enum |-> 16384, Mandated |-> 32768]

RECURSIVE BitOrAll(_)
BitOrAll(S) ==
    IF S = {} THEN 0
    ELSE LET x == CHOOSE v \in S : TRUE IN BitOr(x, BitOrAll(S \ {x}))

\* Modifiers::all(): every bit of a defined flag (the composite constants add none).
Modifiers_all == BitOrAll({Modifiers[f] : f \in DOMAIN Modifiers})

\* Mutant of from_bits_truncate: only the bits of CLASS_MODIFIERS are kept.
from_bits_truncate_class(bits) ==
    BitAnd(bits, BitOrAll({Modifiers[f] : f \in {"Public", "Protected", "Private", "Static",
                                                  "Final", "Abstract", "Strict"}}))

\* Modifiers::from_bits_truncate: bits of no defined flag are dropped.
from_bits_truncate(bits) == BitAnd(bits, Modifiers_all)

\* Modifiers::contains
contains(self, other) == BitAnd(self, other) = other

\* __impl_flag_chk!($flag): is_<flag>_bits(bits) for a flag of the bitflags struct
is_flag_bits(flag, bits) == contains(from_bits_truncate(bits), Modifiers[flag])

\* __impl_flag_chk!($flag as u16): is_<flag>_bits(bits) is `bits & Self::$flag != 1`,
\* where & binds tighter than !=
is_u16_bits(flag, bits) == BitAnd(bits, ModifierBits[flag]) # 1

\* The 18 predicates is_<flag>_bits generated at the end of impl Modifiers.
is_bits(flag, bits) ==
    IF flag \in DOMAIN Modifiers THEN is_flag_bits(flag, bits) ELSE is_u16_bits(flag, bits)

is_interface_bits(bits) == is_bits("Interface", bits)
is_annotation_bits(bits) == is_bits("Annotation", bits)

(***************************************************************************)
(* The JVM (the Provider): a fixed hierarchy.                              *)
(*   mods: public 0x0001, final 0x0010, interface 0x0200, abstract 0x0400, *)
(*         annotation 0x2000                                               *)
(***************************************************************************)
JavaTypes ==
    [Object       |-> [segs |-> <<"java", "lang", "Object">>, kind |-> "class",
                       super |-> "none", ifs |-> <<>>, mods |-> 1],
     Number       |-> [segs |-> <<"java", "lang", "Number">>, kind |-> "class",
                       super |-> "Object", ifs |-> <<"Serializable">>, mods |-> 1025],
     Integer      |-> [segs |-> <<"java", "lang", "Integer">>, kind |-> "class",
                       super |-> "Number", ifs |-> <<"Comparable">>, mods |-> 17],
     Float        |-> [segs |-> <<"java", "lang", "Float">>, kind |-> "class",
                       super |-> "Number", ifs |-> <<"Comparable">>, mods |-> 17],
     String       |-> [segs |-> <<"java", "lang", "String">>, kind |-> "class",
                       super |-> "Object", ifs |-> <<"Serializable", "Comparable">>,
                       mods |-> 17],
     Comparable   |-> [segs |-> <<"java", "lang", "Comparable">>, kind |-> "interface",
                       super |-> "none", ifs |-> <<>>, mods |-> 1537],
     Serializable |-> [segs |-> <<"java", "io", "Serializable">>, kind |-> "interface",
                       super |-> "none", ifs |-> <<>>, mods |-> 1537],
     Runnable     |-> [segs |-> <<"java", "lang", "Runnable">>, kind |-> "interface",
                       super |-> "none", ifs |-> <<>>, mods |-> 1537],
     Annotation   |-> [segs |-> <<"java", "lang", "annotation", "Annotation">>,
                       kind |-> "interface", super |-> "none", ifs |-> <<>>, mods |-> 1537],
     Override     |-> [segs |-> <<"java", "lang", "Override">>, kind |-> "interface",
                       super |-> "none", ifs |-> <<"Annotation">>, mods |-> 9729],
     int          |-> [segs |-> <<"int">>, kind |-> "primitive",
                       super |-> "none", ifs |-> <<>>, mods |-> 1041],
     void         |-> [segs |-> <<"void">>, kind |-> "primitive",
                       super |-> "none", ifs |-> <<>>, mods |-> 1041]]

TypeIds == DOMAIN JavaTypes
NoType == "none"

\* java.lang.Class#getName
getName(ty) == Join(JavaTypes[ty].segs, ".")

\* Mutant of find_class: an array descriptor is resolved to its element type.
find_class_arrays(cp) ==
    LET found == {ty \in TypeIds :
                     \/ JavaTypes[ty].kind # "primitive" /\ Join(JavaTypes[ty].segs, "/") = cp
                     \/ /\ JavaTypes[ty].kind = "primitive"
                        /\ cp # <<>> /\ cp[1] = "["
                        /\ cp[Len(cp)] = PRIMITIVE_TYPES_TO_DESC[JavaTypes[ty].segs[1]]}
    IN  IF found = {} THEN NoType ELSE CHOOSE ty \in found : TRUE

\* JNIEnv::find_class: the class of a JNI spelling; primitives are not found by name.
find_class(cp) ==
    LET found == {ty \in TypeIds : JavaTypes[ty].kind # "primitive"
                                   /\ Join(JavaTypes[ty].segs, "/") = cp}
    IN  IF found = {} THEN NoType ELSE CHOOSE ty \in found : TRUE

\* Mutant of wrapper_TYPE: the wrapper class itself instead of its TYPE field.
wrapper_TYPE_class(primitive_name) ==
    find_class(DESC_TO_WRAPPER_CLASS_CP[PRIMITIVE_TYPES_TO_DESC[primitive_name[1]]])

\* The static field TYPE of the wrapper class of a primitive name.
wrapper_TYPE(primitive_name) ==
    LET found == {ty \in TypeIds : JavaTypes[ty].kind = "primitive"
                                   /\ JavaTypes[ty].segs = primitive_name}
    IN  IF found = {} THEN NoType ELSE CHOOSE ty \in found : TRUE

\* JNIEnv::get_superclass
get_superclass(ty) == JavaTypes[ty].super

\* java.lang.Class#getInterfaces
getInterfaces(ty) == JavaTypes[ty].ifs

RECURSIVE Ancestors(_)
Ancestors(ty) ==
    LET direct == (IF JavaTypes[ty].super = NoType THEN {} ELSE {JavaTypes[ty].super})
                  \cup Range(JavaTypes[ty].ifs)
    IN  direct \cup UNION {Ancestors(d) : d \in direct}

\* java.lang.Class#isAssignableFrom: x.isAssignableFrom(y)
isAssignableFrom(x, y) ==
    \/ x = y
    \/ /\ JavaTypes[x].kind # "primitive"
       /\ JavaTypes[y].kind # "primitive"
       /\ (x = "Object" \/ x \in Ancestors(y))

(***************************************************************************)
(* State                                                                   *)
(*   cacheSrc  which fetch functions are built in: "lib" (src/lib.rs) or   *)
(*             "class" (src/class.rs)                                      *)
(*   entrySrc  which entry methods are built in: "model"                   *)
(*             (src/model/class.rs) or "class" (src/class.rs)              *)
(*   cache     CLASS_CACHE: key -> entry id (an Arc)                       *)
(*   entries   every ClassInternal constructed so far, by id               *)
(*   th        the calling threads                                         *)
(*   calls     API calls started                                           *)
(*   frees     free_lookup calls made                                      *)
(***************************************************************************)
VARIABLES cacheSrc, entrySrc, cache, entries, th, calls, frees

vars == <<cacheSrc, entrySrc, cache, entries, th, calls, frees>>

Builds == {<<"lib", "model">>, <<"class", "model">>, <<"class", "class">>}

NoRes == [tag |-> "none", id |-> 0, err |-> "", list |-> <<>>, val |-> <<>>]
Ok(id) == [tag |-> "ok", id |-> id, err |-> "", list |-> <<>>, val |-> <<>>]
OkList(l) == [tag |-> "ok", id |-> 0, err |-> "", list |-> l, val |-> <<>>]
\* Ok of a String (a token sequence) or of a u16 (a one-element sequence)
OkVal(v) == [tag |-> "ok", id |-> 0, err |-> "", list |-> <<>>, val |-> v]
\* A bool result as a token.
BoolTok(b) == IF b THEN "true" ELSE "false"

Err(e) == [tag |-> "err", id |-> 0, err |-> e, list |-> <<>>, val |-> <<>>]

IdleThread ==
    [pc |-> "idle", op |-> "none", arg |-> <<>>, key |-> <<>>, a |-> 0, b |-> 0,
     cur |-> 0, acc |-> <<>>, iters |-> 0, res |-> NoRes, held |-> {},
     hit |-> FALSE, finds |-> 0, built |-> {}, ins |-> {}, queries |-> 0]

\* History of an entry's cells: the JVM calls made for each cell and how many of
\* them failed.
NoFetches == [class_name |-> 0, modifiers |-> 0, superclass |-> 0, interfaces |-> 0]

\* ClassInternal::new: every OnceCell empty (superclass/modifiers -1, self reference 0).
\* cp, gen, fetches and fails are history only: the key the entry was built for,
\* the number of free_lookup calls before it was built, and the JVM calls made
\* for its cells.
ClassInternal_new(class_obj) ==
    [inner |-> class_obj, cp |-> <<>>, self_cached_weak_ref |-> 0, superclass |-> -1,
     interfaces |-> [set |-> FALSE, v |-> <<>>],
     class_name |-> [set |-> FALSE, v |-> <<>>], modifiers |-> -1,
     lock |-> NoThread, poisoned |-> FALSE,
     gen |-> 0, fetches |-> NoFetches, fails |-> NoFetches]

\* ClassInternal::initialize_self_weak_ref
initialize_self_weak_ref(class, weak_ref) ==
    [class EXCEPT !.self_cached_weak_ref = weak_ref]

\* Mutant of or_insert: HashMap::insert, which overwrites a present key.
or_insert_overwrite(c, key, id) ==
    [k \in DOMAIN c \cup {key} |-> IF k = key THEN id ELSE c[k]]

\* HashMap::entry(key).or_insert(id)
or_insert(c, key, id) == IF key \in DOMAIN c THEN c ELSE c @@ (key :> id)

\* Mutant of fetch_class_from_jclass_internal: the entry is also inserted under
\* the name of its handle.
fetch_class_from_jclass_internal_alias(ents, c, jclass, known_jclass_cp) ==
    LET id == Len(ents) + 1
        class == IF cacheSrc = "class"
                 THEN initialize_self_weak_ref(ClassInternal_new(jclass), id)
                 ELSE ClassInternal_new(jclass)
        c2 == or_insert(or_insert(c, known_jclass_cp, id), getName(jclass), id)
    IN  [ents |-> Append(ents, [class EXCEPT !.cp = known_jclass_cp, !.gen = frees]), cache |-> c2, id |-> c2[known_jclass_cp],
         built |-> {id}, ins |-> IF c2[known_jclass_cp] = id THEN {id} ELSE {}]

\* Mutant of fetch_class_from_jclass_internal: the caller gets the Arc it built,
\* whether it was inserted or not.
fetch_class_from_jclass_internal_own(ents, c, jclass, known_jclass_cp) ==
    LET id == Len(ents) + 1
        class == IF cacheSrc = "class"
                 THEN initialize_self_weak_ref(ClassInternal_new(jclass), id)
                 ELSE ClassInternal_new(jclass)
        c2 == or_insert(c, known_jclass_cp, id)
    IN  [ents |-> Append(ents, [class EXCEPT !.cp = known_jclass_cp, !.gen = frees]), cache |-> c2, id |-> id,
         built |-> {id}, ins |-> IF c2[known_jclass_cp] = id THEN {id} ELSE {}]

\* fetch_class_from_jclass_internal: under the cache lock, build an entry for the
\* handle and get-or-insert it; src/class.rs also sets the entry's self reference.
fetch_class_from_jclass_internal(ents, c, jclass, known_jclass_cp) ==
    LET id == Len(ents) + 1
        class == IF cacheSrc = "class"
                 THEN initialize_self_weak_ref(ClassInternal_new(jclass), id)
                 ELSE ClassInternal_new(jclass)
        c2 == or_insert(c, known_jclass_cp, id)
    IN  [ents |-> Append(ents, [class EXCEPT !.cp = known_jclass_cp, !.gen = frees]), cache |-> c2, id |-> c2[known_jclass_cp],
         built |-> {id}, ins |-> IF c2[known_jclass_cp] = id THEN {id} ELSE {}]

\* fetch_class_from_jclass for a handle whose class path is not known: the key is
\* Class#getName (src/lib.rs), with dots replaced by slashes in src/class.rs.
fetch_class_from_jclass(ents, c, jclass) ==
    LET cp == IF cacheSrc = "lib" THEN getName(jclass)
              ELSE Replace(getName(jclass), ".", "/")
    IN  fetch_class_from_jclass_internal(ents, c, jclass, cp)

\* The strong references a thread holds: its Class values and its locals.
ThreadRefs(r) == (r.held \cup {r.cur} \cup Range(r.acc)) \ {0}

RECURSIVE Closure(_, _)
Closure(ents, S) ==
    LET n == S \cup UNION {Range(ents[e].interfaces.v) : e \in S}
    IN  IF n = S THEN S ELSE Closure(ents, n)

\* Entries with a strong count above zero.
LiveSet(ents, c, thr) ==
    Closure(ents, Range(c) \cup UNION {ThreadRefs(thr[t]) : t \in Threads})

\* Mutant of upgrade: the Weak never upgrades.
upgrade_dead(ents, c, thr, w) == 0

\* Weak::upgrade (0 is None)
upgrade(ents, c, thr, w) == IF w > 0 /\ w \in LiveSet(ents, c, thr) THEN w ELSE 0

\* Every MutexGuard of thread t is dropped.
Release(ents, t) ==
    [i \in 1..Len(ents) |->
        IF ents[i].lock = t THEN [ents[i] EXCEPT !.lock = NoThread] ELSE ents[i]]

\* The call of thread record r returns res.
Done(r, res) ==
    [r EXCEPT !.pc = "idle", !.res = res, !.cur = 0, !.acc = <<>>,
              !.held = IF res.tag = "ok" THEN (@ \cup {res.id} \cup Range(res.list)) \ {0}
                       ELSE @]

StartCall(r, op) ==
    [r EXCEPT !.op = op, !.arg = <<>>, !.key = <<>>, !.a = 0, !.b = 0, !.cur = 0,
              !.acc = <<>>, !.iters = 0, !.res = NoRes, !.hit = FALSE, !.finds = 0,
              !.built = {}, !.ins = {}, !.queries = 0]

Noted(r, x) == [r EXCEPT !.built = @ \cup x.built, !.ins = @ \cup x.ins]

CanCall(t) == th[t].pc = "idle" /\ calls < MaxCalls

(***************************************************************************)
(* lookup_class / fetch_class                                              *)
(***************************************************************************)
\* Mutant of fetch_class_check: the cache is not consulted.
fetch_class_check_nocache(r, c) == [r EXCEPT !.pc = "fetch_miss"]

\* fetch_class, first critical section: a hit returns the cached Arc.
fetch_class_check(r, c) ==
    IF r.key \in DOMAIN c THEN Done(r, Ok(c[r.key])) ELSE [r EXCEPT !.pc = "fetch_miss"]

\* HierExt::lookup_class(class_path)
lookup_class(t, class_path) ==
    /\ CanCall(t)
    /\ calls' = calls + 1
    /\ LET key == IF cacheSrc = "lib" THEN as_jni(class_path) ELSE class_path
           r == [StartCall(th[t], "lookup_class") EXCEPT
                    !.arg = class_path, !.key = key, !.hit = key \in DOMAIN cache]
       IN  th' = [th EXCEPT ![t] = fetch_class_check(r, cache)]
    /\ UNCHANGED <<cacheSrc, entrySrc, frees, cache, entries>>

\* fetch_class after a miss: the cache lock was dropped; find the class (or the
\* wrapper's TYPE for a primitive name) and get-or-insert its entry.
fetch_miss(t) ==
    /\ th[t].pc = "fetch_miss"
    /\ LET r == th[t]
           prim == cacheSrc = "lib" /\ IsPrimitiveName(r.key)
           jclass == IF prim THEN wrapper_TYPE(r.key) ELSE find_class(r.key)
           x == IF cacheSrc = "lib"
                THEN fetch_class_from_jclass_internal(entries, cache, jclass, r.key)
                ELSE fetch_class_from_jclass(entries, cache, jclass)
           r2 == [r EXCEPT !.finds = IF prim THEN @ ELSE @ + 1]
       IN  IF jclass = NoType
           THEN /\ th' = [th EXCEPT ![t] = Done(r2, Err("JavaError"))]
                /\ entries' = Release(entries, t)
                /\ cache' = cache
           ELSE /\ th' = [th EXCEPT ![t] = Done(Noted(r2, x), Ok(x.id))]
                /\ entries' = Release(x.ents, t)
                /\ cache' = x.cache
    /\ UNCHANGED <<cacheSrc, entrySrc, frees, calls>>

\* Mutant of free_lookup: the cache is left as it is.
free_lookup_keep(t) ==
    /\ CanCall(t)
    /\ calls' = calls + 1
    /\ frees' = frees + 1
    /\ th' = [th EXCEPT ![t] = Done(StartCall(@, "free_lookup"), Ok(0))]
    /\ UNCHANGED <<cacheSrc, entrySrc, entries, cache>>

\* free_jclass_cache
free_lookup(t) ==
    /\ CanCall(t)
    /\ calls' = calls + 1
    /\ cache' = <<>>
    /\ frees' = frees + 1
    /\ th' = [th EXCEPT ![t] = Done(StartCall(@, "free_lookup"), Ok(0))]
    /\ UNCHANGED <<cacheSrc, entrySrc, entries>>

(***************************************************************************)
(* Class::superclass / ClassInternal::superclass                           *)
(***************************************************************************)
\* The OnceCell of ClassInternal::superclass: on first use ask the JVM and resolve
\* the handle through the cache; the cell keeps a Weak.
superclass_cell(ents, c, e) ==
    IF ents[e].superclass >= 0
    THEN [ents |-> ents, cache |-> c, weak |-> ents[e].superclass, built |-> {}, ins |-> {}]
    ELSE LET s == get_superclass(ents[e].inner)
             x == fetch_class_from_jclass(ents, c, s)
         IN  IF s = NoType
             THEN [ents |-> [ents EXCEPT ![e].superclass = 0,
                                         ![e].fetches.superclass = @ + 1],
                   cache |-> c, weak |-> 0, built |-> {}, ins |-> {}]
             ELSE [ents |-> [x.ents EXCEPT ![e].superclass = x.id,
                                           ![e].fetches.superclass = @ + 1],
                   cache |-> x.cache, weak |-> x.id, built |-> x.built, ins |-> x.ins]

\* Class::superclass: take the entry's lock.
superclass(t, e) ==
    /\ CanCall(t)
    /\ e \in th[t].held
    /\ entries[e].lock = NoThread
    /\ calls' = calls + 1
    /\ IF entries[e].poisoned
       THEN /\ th' = [th EXCEPT ![t] =
                        Done([StartCall(@, "superclass") EXCEPT !.a = e],
                             Err("CacheAccessError"))]
            /\ entries' = entries
       ELSE /\ th' = [th EXCEPT ![t] =
                        [StartCall(@, "superclass") EXCEPT !.a = e, !.pc = "superclass"]]
            /\ entries' = [entries EXCEPT ![e].lock = t]
    /\ UNCHANGED <<cacheSrc, entrySrc, frees, cache>>

\* ClassInternal::superclass under the lock, then the guard is dropped.
superclass_body(t) ==
    /\ th[t].pc = "superclass"
    /\ LET r == th[t]
           x == superclass_cell(entries, cache, r.a)
           up == upgrade(x.ents, x.cache, th, x.weak)
       IN  /\ th' = [th EXCEPT ![t] = Done(Noted(r, x), Ok(up))]
           /\ entries' = Release(x.ents, t)
           /\ cache' = x.cache
    /\ UNCHANGED <<cacheSrc, entrySrc, frees, calls>>

(***************************************************************************)
(* Class::interfaces / ClassInternal::interfaces                           *)
(***************************************************************************)
interfaces(t, e) ==
    /\ CanCall(t)
    /\ e \in th[t].held
    /\ entries[e].lock = NoThread
    /\ calls' = calls + 1
    /\ IF entries[e].poisoned
       THEN /\ th' = [th EXCEPT ![t] =
                        Done([StartCall(@, "interfaces") EXCEPT !.a = e],
                             Err("CacheAccessError"))]
            /\ entries' = entries
       ELSE /\ th' = [th EXCEPT ![t] =
                        [StartCall(@, "interfaces") EXCEPT !.a = e, !.pc = "interfaces"]]
            /\ entries' = [entries EXCEPT ![e].lock = t]
    /\ UNCHANGED <<cacheSrc, entrySrc, frees, cache>>

\* Mutant of get_object_array_element: element 0 whatever the index.
get_object_array_element_first(arr, i) == arr[1]

\* env.get_object_array_element(interface_arr, i), i counted from 0
get_object_array_element(arr, i) == arr[i + 1]

\* ClassInternal::interfaces under the lock: a set cell is returned; otherwise the
\* declared interfaces are resolved through the cache one by one, then the cell is
\* set and the guard dropped.
interfaces_body(t) ==
    /\ th[t].pc = "interfaces"
    /\ LET r == th[t]
           e == r.a
           arr == getInterfaces(entries[e].inner)
       IN  IF entries[e].interfaces.set
           THEN /\ th' = [th EXCEPT ![t] = Done(r, OkList(entries[e].interfaces.v))]
                /\ entries' = Release(entries, t)
                /\ cache' = cache
           ELSE IF Len(r.acc) < Len(arr)
           THEN LET x == fetch_class_from_jclass(entries, cache,
                                                 get_object_array_element(arr, Len(r.acc)))
                IN  /\ th' = [th EXCEPT ![t] = [Noted(r, x) EXCEPT !.acc = Append(@, x.id)]]
                    /\ entries' = x.ents
                    /\ cache' = x.cache
           ELSE /\ th' = [th EXCEPT ![t] = Done(r, OkList(r.acc))]
                /\ entries' = Release([entries EXCEPT
                                  ![e].interfaces = [set |-> TRUE, v |-> r.acc],
                                  ![e].fetches.interfaces = @ + 1], t)
                /\ cache' = cache
    /\ UNCHANGED <<cacheSrc, entrySrc, frees, calls>>

\* ClassInternal::interfaces when a JNI call of the initialiser returns an error
\* (`?` at getInterfaces, get_object_array_element, or inside
\* fetch_class_from_jclass for the next interface): get_or_try_init leaves the
\* cell empty, the interfaces resolved so far are dropped with the Vec, the guard
\* is dropped and the error returned.  The cache keeps what earlier iterations
\* inserted.
interfaces_body_fail(t) ==
    /\ th[t].pc = "interfaces"
    /\ LET r == th[t]
           e == r.a
           arr == getInterfaces(entries[e].inner)
       IN  /\ ~entries[e].interfaces.set
           /\ Len(r.acc) < Len(arr) \/ Len(r.acc) = 0
           /\ th' = [th EXCEPT ![t] = Done(r, Err("JniError"))]
           /\ entries' = Release([entries EXCEPT ![e].fetches.interfaces = @ + 1,
                                                 ![e].fails.interfaces = @ + 1], t)
    /\ UNCHANGED <<cacheSrc, entrySrc, frees, calls, cache>>

(***************************************************************************)
(* Class::name, Class::modifiers, dropping a Class                         *)
(***************************************************************************)
\* Class::name: lock the entry, ClassInternal::name (get_or_try_init of the
\* class_name cell with Class#getName), drop the guard.  jvm_ok says whether the
\* JNI calls of the initialiser succeed; a failure leaves the cell empty.
name(t, e, jvm_ok) ==
    /\ CanCall(t)
    /\ e \in th[t].held
    /\ entries[e].lock = NoThread
    /\ calls' = calls + 1
    /\ LET r == [StartCall(th[t], "name") EXCEPT !.a = e]
           v == getName(entries[e].inner)
       IN  IF entries[e].poisoned
           THEN /\ th' = [th EXCEPT ![t] = Done(r, Err("CacheAccessError"))]
                /\ entries' = entries
           ELSE IF entries[e].class_name.set
           THEN /\ th' = [th EXCEPT ![t] = Done(r, OkVal(entries[e].class_name.v))]
                /\ entries' = entries
           ELSE IF jvm_ok
           THEN /\ th' = [th EXCEPT ![t] = Done(r, OkVal(v))]
                /\ entries' = [entries EXCEPT ![e].class_name = [set |-> TRUE, v |-> v],
                                              ![e].fetches.class_name = @ + 1]
           ELSE /\ th' = [th EXCEPT ![t] = Done(r, Err("JniError"))]
                /\ entries' = [entries EXCEPT ![e].fetches.class_name = @ + 1,
                                              ![e].fails.class_name = @ + 1]
    /\ UNCHANGED <<cacheSrc, entrySrc, frees, cache>>

\* Class::modifiers: lock the entry, ClassInternal::modifiers (get_or_try_init of
\* the modifiers cell with Class#getModifiers as u16), drop the guard.
modifiers(t, e, jvm_ok) ==
    /\ CanCall(t)
    /\ e \in th[t].held
    /\ entries[e].lock = NoThread
    /\ calls' = calls + 1
    /\ LET r == [StartCall(th[t], "modifiers") EXCEPT !.a = e]
           v == JavaTypes[entries[e].inner].mods % 65536
       IN  IF entries[e].poisoned
           THEN /\ th' = [th EXCEPT ![t] = Done(r, Err("CacheAccessError"))]
                /\ entries' = entries
           ELSE IF entries[e].modifiers >= 0
           THEN /\ th' = [th EXCEPT ![t] = Done(r, OkVal(<<entries[e].modifiers>>))]
                /\ entries' = entries
           ELSE IF jvm_ok
           THEN /\ th' = [th EXCEPT ![t] = Done(r, OkVal(<<v>>))]
                /\ entries' = [entries EXCEPT ![e].modifiers = v,
                                              ![e].fetches.modifiers = @ + 1]
           ELSE /\ th' = [th EXCEPT ![t] = Done(r, Err("JniError"))]
                /\ entries' = [entries EXCEPT ![e].fetches.modifiers = @ + 1,
                                              ![e].fails.modifiers = @ + 1]
    /\ UNCHANGED <<cacheSrc, entrySrc, frees, cache>>

\* Class::clone (#[derive(Clone)]): thread u is given a clone of a Class value
\* thread t holds.
clone_class(t, u, e) ==
    /\ th[t].pc = "idle"
    /\ th[u].pc = "idle"
    /\ t # u
    /\ e \in th[t].held
    /\ e \notin th[u].held
    /\ th' = [th EXCEPT ![u].held = @ \cup {e}]
    /\ UNCHANGED <<cacheSrc, entrySrc, frees, cache, entries, calls>>

\* A caller drops its Class value for entry e (the Arc's strong count goes down).
drop_class(t, e) ==
    /\ th[t].pc = "idle"
    /\ e \in th[t].held
    /\ th' = [th EXCEPT ![t] = [StartCall(@, "drop_class") EXCEPT !.a = e, !.held = @ \ {e}]]
    /\ UNCHANGED <<cacheSrc, entrySrc, frees, cache, entries, calls>>

(***************************************************************************)
(* Class::is_interface, Class::is_annotation                               *)
(***************************************************************************)
\* Class::is_<flag>: lock the entry, ClassInternal::is_<flag>, which is
\* self.modifiers(env).map(Modifiers::is_<flag>_bits), drop the guard.
Class_is_flag(t, e, jvm_ok, op, flag) ==
    /\ CanCall(t)
    /\ e \in th[t].held
    /\ entries[e].lock = NoThread
    /\ calls' = calls + 1
    /\ LET r == [StartCall(th[t], op) EXCEPT !.a = e]
           v == JavaTypes[entries[e].inner].mods % 65536
       IN  IF entries[e].poisoned
           THEN /\ th' = [th EXCEPT ![t] = Done(r, Err("CacheAccessError"))]
                /\ entries' = entries
           ELSE IF entries[e].modifiers >= 0
           THEN /\ th' = [th EXCEPT ![t] =
                            Done(r, OkVal(<<BoolTok(is_bits(flag, entries[e].modifiers))>>))]
                /\ entries' = entries
           ELSE IF jvm_ok
           THEN /\ th' = [th EXCEPT ![t] = Done(r, OkVal(<<BoolTok(is_bits(flag, v))>>))]
                /\ entries' = [entries EXCEPT ![e].modifiers = v,
                                              ![e].fetches.modifiers = @ + 1]
           ELSE /\ th' = [th EXCEPT ![t] = Done(r, Err("JniError"))]
                /\ entries' = [entries EXCEPT ![e].fetches.modifiers = @ + 1,
                                              ![e].fails.modifiers = @ + 1]
    /\ UNCHANGED <<cacheSrc, entrySrc, frees, cache>>

\* Class::is_interface
is_interface(t, e, jvm_ok) == Class_is_flag(t, e, jvm_ok, "is_interface", "Interface")

\* Class::is_annotation
is_annotation(t, e, jvm_ok) == Class_is_flag(t, e, jvm_ok, "is_annotation", "Annotation")

\* `modifiers & Modifiers::Interface == 1` of src/class.rs (& binds tighter
\* than ==)
class_is_interface_bits(bits) == BitAnd(bits, Modifiers.Interface) = 1

\* Class::is_interface of src/class.rs on a locked entry: self.modifiers(env)?
\* (get_or_try_init of the modifiers cell), then the test above.
class_is_interface(t, e, jvm_ok) ==
    /\ CanCall(t)
    /\ e \in th[t].held
    /\ entries[e].lock = NoThread
    /\ calls' = calls + 1
    /\ LET r == [StartCall(th[t], "class_is_interface") EXCEPT !.a = e]
           v == JavaTypes[entries[e].inner].mods % 65536
       IN  IF entries[e].poisoned
           THEN /\ th' = [th EXCEPT ![t] = Done(r, Err("CacheAccessError"))]
                /\ entries' = entries
           ELSE IF entries[e].modifiers >= 0
           THEN /\ th' = [th EXCEPT ![t] =
                            Done(r, OkVal(<<BoolTok(class_is_interface_bits(entries[e].modifiers))>>))]
                /\ entries' = entries
           ELSE IF jvm_ok
           THEN /\ th' = [th EXCEPT ![t] =
                            Done(r, OkVal(<<BoolTok(class_is_interface_bits(v))>>))]
                /\ entries' = [entries EXCEPT ![e].modifiers = v,
                                              ![e].fetches.modifiers = @ + 1]
           ELSE /\ th' = [th EXCEPT ![t] = Done(r, Err("JniError"))]
                /\ entries' = [entries EXCEPT ![e].fetches.modifiers = @ + 1,
                                              ![e].fails.modifiers = @ + 1]
    /\ UNCHANGED <<cacheSrc, entrySrc, frees, cache>>

(***************************************************************************)
(* Class::common_superclass / ClassInternal::common_superclass             *)
(***************************************************************************)
OBJECT_JNI_CP == <<"java", "/", "lang", "/", "Object">>

\* JNIEnv::is_assignable_from(class1, class2), the JNI function IsAssignableFrom:
\* an object of class1 can be cast to class2.
JNI_IsAssignableFrom(class1, class2) == isAssignableFrom(class2, class1)

\* is_assignable_from on the two handles: src/model/class.rs calls the method
\* Class#isAssignableFrom of self with other, src/class.rs calls the JNI function
\* with (self, other).
inner_is_assignable_from(self, other) ==
    IF entrySrc = "model" THEN isAssignableFrom(self, other)
    ELSE JNI_IsAssignableFrom(self, other)

\* ClassInternal::is_assignable_from
is_assignable_from(ents, self, other) ==
    inner_is_assignable_from(ents[self].inner, ents[other].inner)

\* The test of the chain walk that returns the cursor: src/model/class.rs returns
\* when other.is_assignable_from(cursor) is false, src/class.rs when it is true.
loop_returns(ents, other, cursor) ==
    IF entrySrc = "model"
    THEN ~is_assignable_from(ents, other, cursor)
    ELSE is_assignable_from(ents, other, cursor)

\* Class::common_superclass: self.lock()
common_superclass(t, a, b) ==
    /\ CanCall(t)
    /\ a \in th[t].held
    /\ b \in th[t].held
    /\ entries[a].lock = NoThread
    /\ calls' = calls + 1
    /\ IF entries[a].poisoned
       THEN /\ th' = [th EXCEPT ![t] =
                        Done([StartCall(@, "common_superclass") EXCEPT !.a = a, !.b = b],
                             Err("CacheAccessError"))]
            /\ entries' = entries
       ELSE /\ th' = [th EXCEPT ![t] =
                        [StartCall(@, "common_superclass") EXCEPT
                            !.a = a, !.b = b, !.pc = "cs_lock_other"]]
            /\ entries' = [entries EXCEPT ![a].lock = t]
    /\ UNCHANGED <<cacheSrc, entrySrc, frees, cache>>

\* Class::common_superclass: other.lock().  Locking a std Mutex the thread already
\* holds never returns: it deadlocks or panics (the guard on self is then dropped
\* by the unwinding, which poisons self's mutex).
cs_lock_other(t) ==
    /\ th[t].pc = "cs_lock_other"
    /\ LET b == th[t].b
       IN  IF entries[b].lock = t
           THEN \/ /\ th' = [th EXCEPT ![t].pc = "deadlock"]
                   /\ entries' = entries
                \/ /\ th' = [th EXCEPT ![t].pc = "panicked"]
                   /\ entries' = Release([entries EXCEPT ![b].poisoned = TRUE], t)
           ELSE /\ entries[b].lock = NoThread
                /\ IF entries[b].poisoned
                   THEN /\ th' = [th EXCEPT ![t] = Done(@, Err("CacheAccessError"))]
                        /\ entries' = Release(entries, t)
                   ELSE /\ th' = [th EXCEPT ![t].pc = "cs_body"]
                        /\ entries' = [entries EXCEPT ![b].lock = t]
    /\ UNCHANGED <<cacheSrc, entrySrc, frees, cache, calls>>

\* ClassInternal::common_superclass up to the loop: upgrade both self references,
\* the two assignability tests, then self.superclass(env).
cs_body(t) ==
    /\ th[t].pc = "cs_body"
    /\ LET r == th[t]
           cls1 == upgrade(entries, cache, th, entries[r.a].self_cached_weak_ref)
           cls2 == upgrade(entries, cache, th, entries[r.b].self_cached_weak_ref)
           x == superclass_cell(entries, cache, r.a)
           up == upgrade(x.ents, x.cache, th, x.weak)
       IN  IF cls1 = 0 \/ cls2 = 0
           THEN /\ th' = [th EXCEPT ![t] = Done(r, Err("DanglingClassError"))]
                /\ entries' = Release(entries, t)
                /\ cache' = cache
           ELSE IF is_assignable_from(entries, r.b, r.a)
           THEN /\ th' = [th EXCEPT ![t] = Done(r, Ok(cls1))]
                /\ entries' = Release(entries, t)
                /\ cache' = cache
           ELSE IF is_assignable_from(entries, r.a, r.b)
           THEN /\ th' = [th EXCEPT ![t] = Done(r, Ok(cls2))]
                /\ entries' = Release(entries, t)
                /\ cache' = cache
           ELSE /\ th' = [th EXCEPT ![t] =
                            [Noted(r, x) EXCEPT !.cur = up,
                                !.pc = IF up = 0 THEN "cs_root" ELSE "cs_loop"]]
                /\ entries' = x.ents
                /\ cache' = x.cache
    /\ UNCHANGED <<cacheSrc, entrySrc, frees, calls>>

\* One iteration of the loop: lock the cursor, return it if the test says so,
\* otherwise replace it by its superclass (the guard is dropped either way).
cs_loop(t) ==
    /\ th[t].pc = "cs_loop"
    /\ LET r == th[t]
           x == superclass_cell(entries, cache, r.cur)
           up == upgrade(x.ents, x.cache, th, x.weak)
       IN  /\ entries[r.cur].lock = NoThread
           /\ IF entries[r.cur].poisoned
              THEN /\ th' = [th EXCEPT ![t] = Done(r, Err("CacheAccessError"))]
                   /\ entries' = Release(entries, t)
                   /\ cache' = cache
              ELSE IF loop_returns(entries, r.b, r.cur)
              THEN /\ th' = [th EXCEPT ![t] =
                               Done([r EXCEPT !.iters = @ + 1], Ok(r.cur))]
                   /\ entries' = Release(entries, t)
                   /\ cache' = cache
              ELSE /\ th' = [th EXCEPT ![t] =
                               [Noted(r, x) EXCEPT !.iters = @ + 1, !.cur = up,
                                   !.pc = IF up = 0 THEN "cs_root" ELSE "cs_loop"]]
                   /\ entries' = x.ents
                   /\ cache' = x.cache
    /\ UNCHANGED <<cacheSrc, entrySrc, frees, calls>>

\* The fallback fetch_class(env, OBJECT_JNI_CP), first critical section.
cs_root(t) ==
    /\ th[t].pc = "cs_root"
    /\ th' = [th EXCEPT ![t] = fetch_class_check([@ EXCEPT !.key = OBJECT_JNI_CP], cache)]
    /\ entries' = IF OBJECT_JNI_CP \in DOMAIN cache THEN Release(entries, t) ELSE entries
    /\ UNCHANGED <<cacheSrc, entrySrc, frees, cache, calls>>

(***************************************************************************)
(* examples/common_superclass.rs                                           *)
(***************************************************************************)
\* ClassInternal::modifiers on entry e with a JVM that answers: the cell is
\* filled on first use.
modifiers_cell(ents, e) ==
    IF ents[e].modifiers >= 0 THEN ents
    ELSE [ents EXCEPT ![e].modifiers = JavaTypes[ents[e].inner].mods % 65536,
                      ![e].fetches.modifiers = @ + 1]

\* Class::is_interface on entry e once its modifiers cell is filled.
entry_is_interface(ents, e) ==
    IF entrySrc = "model" THEN is_interface_bits(modifiers_cell(ents, e)[e].modifiers)
    ELSE class_is_interface_bits(modifiers_cell(ents, e)[e].modifiers)

\* The do-while loop of find_most_common_superclass: cls1 becomes its superclass
\* (cls1 itself is returned when there is none), until cls1.is_assignable_from(class2).
RECURSIVE example_loop(_, _, _, _, _)
example_loop(ents, c, thr, cls1, class2) ==
    LET x == superclass_cell(ents, c, cls1)
        up == upgrade(x.ents, x.cache, thr, x.weak)
    IN  IF ents[cls1].poisoned
        THEN [ents |-> ents, cache |-> c, res |-> Err("CacheAccessError"),
              built |-> {}, ins |-> {}]
        ELSE IF up = 0
        THEN [ents |-> x.ents, cache |-> x.cache, res |-> Ok(cls1),
              built |-> x.built, ins |-> x.ins]
        ELSE IF is_assignable_from(x.ents, up, class2)
        THEN [ents |-> x.ents, cache |-> x.cache, res |-> Ok(up),
              built |-> x.built, ins |-> x.ins]
        ELSE LET y == example_loop(x.ents, x.cache, thr, up, class2)
             IN  [y EXCEPT !.built = @ \cup x.built, !.ins = @ \cup x.ins]

\* find_most_common_superclass(env, class1, class2), run by one thread while no
\* other thread holds a lock it needs.  Its first call, class2.is_assignable_from
\* (class1), locks both entries: on two handles of one entry it never returns.
\* The interface case ends in env.lookup_class("java.lang.Object"), whose miss
\* is completed by fetch_miss.
find_most_common_superclass(t, class1, class2) ==
    /\ CanCall(t)
    /\ class1 \in th[t].held
    /\ class2 \in th[t].held
    /\ \A e \in 1..Len(entries) : entries[e].lock = NoThread
    /\ calls' = calls + 1
    /\ LET r == [StartCall(th[t], "find_most_common_superclass") EXCEPT
                    !.a = class1, !.b = class2]
           m1 == modifiers_cell(entries, class1)
           m2 == modifiers_cell(m1, class2)
           object == <<"java", ".", "lang", ".", "Object">>
           key == IF cacheSrc = "lib" THEN as_jni(object) ELSE object
           x == example_loop(m2, cache, th, class1, class2)
       IN  IF entries[class1].poisoned \/ entries[class2].poisoned
           THEN /\ th' = [th EXCEPT ![t] = Done(r, Err("CacheAccessError"))]
                /\ entries' = entries
                /\ cache' = cache
           ELSE IF class1 = class2
           THEN /\ \/ /\ th' = [th EXCEPT ![t] = [r EXCEPT !.pc = "deadlock"]]
                      /\ entries' = [entries EXCEPT ![class2].lock = t]
                   \/ /\ th' = [th EXCEPT ![t] = [r EXCEPT !.pc = "panicked"]]
                      /\ entries' = [entries EXCEPT ![class2].poisoned = TRUE]
                /\ cache' = cache
           ELSE IF is_assignable_from(entries, class2, class1)
           THEN /\ th' = [th EXCEPT ![t] = Done(r, Ok(class1))]
                /\ entries' = entries
                /\ cache' = cache
           ELSE IF is_assignable_from(entries, class1, class2)
           THEN /\ th' = [th EXCEPT ![t] = Done(r, Ok(class2))]
                /\ entries' = entries
                /\ cache' = cache
           ELSE IF entry_is_interface(entries, class1)
           THEN /\ th' = [th EXCEPT ![t] =
                            fetch_class_check([r EXCEPT !.arg = object, !.key = key], cache)]
                /\ entries' = m1
                /\ cache' = cache
           ELSE IF entry_is_interface(m1, class2)
           THEN /\ th' = [th EXCEPT ![t] =
                            fetch_class_check([r EXCEPT !.arg = object, !.key = key], cache)]
                /\ entries' = m2
                /\ cache' = cache
           ELSE /\ th' = [th EXCEPT ![t] = Done(Noted(r, x), x.res)]
                /\ entries' = x.ents
                /\ cache' = x.cache
    /\ UNCHANGED <<cacheSrc, entrySrc, frees>>

(***************************************************************************)
(* Class::is_assignable_from                                               *)
(***************************************************************************)
\* Class::is_assignable_from: self.lock()
Class_is_assignable_from(t, a, b) ==
    /\ CanCall(t)
    /\ a \in th[t].held
    /\ b \in th[t].held
    /\ entries[a].lock = NoThread
    /\ calls' = calls + 1
    /\ IF entries[a].poisoned
       THEN /\ th' = [th EXCEPT ![t] =
                        Done([StartCall(@, "is_assignable_from") EXCEPT !.a = a, !.b = b],
                             Err("CacheAccessError"))]
            /\ entries' = entries
       ELSE /\ th' = [th EXCEPT ![t] =
                        [StartCall(@, "is_assignable_from") EXCEPT
                            !.a = a, !.b = b, !.pc = "iaf_lock_other"]]
            /\ entries' = [entries EXCEPT ![a].lock = t]
    /\ UNCHANGED <<cacheSrc, entrySrc, frees, cache>>

\* Class::is_assignable_from: other.lock(), then ClassInternal::is_assignable_from
\* (one call of Class#isAssignableFrom) and both guards are dropped.  Locking a
\* std Mutex the thread already holds never returns: it deadlocks or panics.
Class_is_assignable_from_body(t) ==
    /\ th[t].pc = "iaf_lock_other"
    /\ LET a == th[t].a
           b == th[t].b
       IN  IF entries[b].lock = t
           THEN \/ /\ th' = [th EXCEPT ![t].pc = "deadlock"]
                   /\ entries' = entries
                \/ /\ th' = [th EXCEPT ![t].pc = "panicked"]
                   /\ entries' = Release([entries EXCEPT ![b].poisoned = TRUE], t)
           ELSE /\ entries[b].lock = NoThread
                /\ IF entries[b].poisoned
                   THEN /\ th' = [th EXCEPT ![t] = Done(@, Err("CacheAccessError"))]
                        /\ entries' = Release(entries, t)
                   ELSE /\ th' = [th EXCEPT ![t] =
                                    Done([@ EXCEPT !.queries = @ + 1],
                                         OkVal(<<BoolTok(is_assignable_from(entries, a, b))>>))]
                        /\ entries' = Release(entries, t)
    /\ UNCHANGED <<cacheSrc, entrySrc, frees, cache, calls>>

(***************************************************************************)
(* Specifications                                                          *)
(***************************************************************************)
JavaSpelling(ty) == Join(JavaTypes[ty].segs, ".")
JniSpelling(ty) == Join(JavaTypes[ty].segs, "/")

\* Spec: two threads on the cache of src/lib.rs with the entries of
\* src/model/class.rs.
CacheNames == {JavaSpelling("Integer"), JavaSpelling("Float"), JavaSpelling("Number"),
               <<"int">>, <<"void", "[]">>}

Init ==
    /\ cacheSrc = "lib"
    /\ entrySrc = "model"
    /\ cache = <<>>
    /\ entries = <<>>
    /\ th = [t \in Threads |-> IdleThread]
    /\ calls = 0
    /\ frees = 0

Next ==
    \E t \in Threads :
        \/ \E cp \in CacheNames : lookup_class(t, cp)
        \/ fetch_miss(t)
        \/ free_lookup(t)
        \/ \E e \in 1..Len(entries) : superclass(t, e)
        \/ superclass_body(t)
        \/ \E e \in 1..Len(entries) : interfaces(t, e)
        \/ interfaces_body(t)

Spec == Init /\ [][Next]_vars

\* SpecCS: one thread looks classes up and asks for common superclasses, in each
\* build of the fetch functions and the entry methods.
CSTypes == {"Integer", "Float", "String", "Number", "Comparable", "Runnable",
            "int", "void"}

CSNames == IF cacheSrc = "lib" THEN {JavaSpelling(ty) : ty \in CSTypes}
           ELSE {JniSpelling(ty) : ty \in CSTypes}

InitCS ==
    /\ \E build \in Builds : cacheSrc = build[1] /\ entrySrc = build[2]
    /\ cache = <<>>
    /\ entries = <<>>
    /\ th = [t \in Threads |-> IdleThread]
    /\ calls = 0
    /\ frees = 0

NextCS ==
    \/ \E cp \in CSNames : lookup_class("t1", cp)
    \/ fetch_miss("t1")
    \/ \E e \in 1..Len(entries) : superclass("t1", e)
    \/ superclass_body("t1")
    \/ \E a, b \in 1..Len(entries) : common_superclass("t1", a, b)
    \/ cs_lock_other("t1")
    \/ cs_body("t1")
    \/ cs_loop("t1")
    \/ cs_root("t1")

SpecCS == InitCS /\ [][NextCS]_vars

\* SpecCS with a thread that keeps running while it has a step to take.
SpecCSLive == SpecCS /\ WF_vars(NextCS)

\* SpecAPI: one thread uses the cache and the accessors of src/lib.rs and
\* src/model/class.rs, free_lookup included, and drops Class values; the JNI calls
\* of name and modifiers may fail.
APITypes == {"Integer", "String", "int"}

APINames == {JavaSpelling(ty) : ty \in APITypes}

NextAPI ==
    \/ \E cp \in APINames : lookup_class("t1", cp)
    \/ fetch_miss("t1")
    \/ free_lookup("t1")
    \/ \E e \in 1..Len(entries) : drop_class("t1", e)
    \/ \E e \in 1..Len(entries) : superclass("t1", e)
    \/ superclass_body("t1")
    \/ \E e \in 1..Len(entries) : interfaces("t1", e)
    \/ interfaces_body("t1")
    \/ \E e \in 1..Len(entries), jvm_ok \in BOOLEAN : name("t1", e, jvm_ok)
    \/ \E e \in 1..Len(entries), jvm_ok \in BOOLEAN : modifiers("t1", e, jvm_ok)

SpecAPI == Init /\ [][NextAPI]_vars

\* SpecFreeCS: one thread looks classes up, frees the cache and asks for common
\* superclasses, in each build.
FreeCSTypes == {"Integer", "Number", "Runnable"}

FreeCSNames == IF cacheSrc = "lib" THEN {JavaSpelling(ty) : ty \in FreeCSTypes}
               ELSE {JniSpelling(ty) : ty \in FreeCSTypes}

NextFreeCS ==
    \/ \E cp \in FreeCSNames : lookup_class("t1", cp)
    \/ fetch_miss("t1")
    \/ free_lookup("t1")
    \/ \E a, b \in 1..Len(entries) : common_superclass("t1", a, b)
    \/ cs_lock_other("t1")
    \/ cs_body("t1")
    \/ cs_loop("t1")
    \/ cs_root("t1")

SpecFreeCS == InitCS /\ [][NextFreeCS]_vars

\* SpecIAF: one thread looks classes up, asks for superclasses and for
\* assignability, on the cache of src/lib.rs and the entries of
\* src/model/class.rs.
IAFTypes == {"Integer", "Number", "Comparable", "int"}

IAFNames == {JavaSpelling(ty) : ty \in IAFTypes}

NextIAF ==
    \/ \E cp \in IAFNames : lookup_class("t1", cp)
    \/ fetch_miss("t1")
    \/ \E e \in 1..Len(entries) : superclass("t1", e)
    \/ superclass_body("t1")
    \/ \E a, b \in 1..Len(entries) : Class_is_assignable_from("t1", a, b)
    \/ Class_is_assignable_from_body("t1")

SpecIAF == Init /\ [][NextIAF]_vars

\* SpecMod: one thread looks up a class, an interface and an annotation and
\* asks for their modifiers and flags; the JNI call for the modifiers may fail.
ModTypes == {"Integer", "Comparable", "Override"}

ModNames == {JavaSpelling(ty) : ty \in ModTypes}

NextMod ==
    \/ \E cp \in ModNames : lookup_class("t1", cp)
    \/ fetch_miss("t1")
    \/ \E e \in 1..Len(entries), jvm_ok \in BOOLEAN : modifiers("t1", e, jvm_ok)
    \/ \E e \in 1..Len(entries), jvm_ok \in BOOLEAN : is_interface("t1", e, jvm_ok)
    \/ \E e \in 1..Len(entries), jvm_ok \in BOOLEAN : is_annotation("t1", e, jvm_ok)

SpecMod == Init /\ [][NextMod]_vars

\* SpecBits: the raw-integer predicates of Modifiers applied to every u16.
U16_MAX == 65535

FlagNames == DOMAIN Modifiers \cup DOMAIN ModifierBits

InitBits ==
    /\ cacheSrc = "lib"
    /\ entrySrc = "model"
    /\ cache = <<>>
    /\ entries = <<>>
    /\ \E bits \in 0..U16_MAX :
          th = [t \in Threads |-> IF t = "t1" THEN [IdleThread EXCEPT !.arg = <<bits>>]
                                  ELSE IdleThread]
    /\ calls = 0
    /\ frees = 0

\* Modifiers::is_<flag>_bits(bits)
is_bits_call(t, flag) ==
    /\ th[t].op = "none"
    /\ th[t].arg # <<>>
    /\ th' = [th EXCEPT ![t] =
                 [@ EXCEPT !.op = "is_bits", !.key = <<flag>>,
                           !.res = OkVal(<<BoolTok(is_bits(flag, th[t].arg[1]))>>)]]
    /\ UNCHANGED <<cacheSrc, entrySrc, cache, entries, calls, frees>>

NextBits == \E flag \in FlagNames : is_bits_call("t1", flag)

SpecBits == InitBits /\ [][NextBits]_vars

\* SpecCP: ClassPath::convert applied twice to every legal spelling of up to
\* MaxDim dimensions, in either dialect.
ClassSegs == {JavaTypes[ty].segs : ty \in {x \in TypeIds : JavaTypes[x].kind # "primitive"}}
                \cup {<<"java", "util", "Map$Entry">>, <<"Foo">>}

\* Legal Java spellings: names, primitive names, and arrays of them (not of void).
JavaSpellings ==
    {Join(segs, ".") \o Repeat("[]", n) : segs \in ClassSegs, n \in 0..MaxDim}
        \cup {<<p>> \o Repeat("[]", n) : p \in DOMAIN PRIMITIVE_TYPES_TO_DESC \ {"void"},
                                         n \in 0..MaxDim}
        \cup {<<"void">>}

\* Legal JNI spellings: names, primitive names, and array descriptors.
JniSpellings ==
    {Join(segs, "/") : segs \in ClassSegs}
        \cup {<<p>> : p \in DOMAIN PRIMITIVE_TYPES_TO_DESC}
        \cup {Repeat("[", n) \o <<"L">> \o Join(segs, "/") \o <<";">> :
                 segs \in ClassSegs, n \in 1..MaxDim}
        \cup {Repeat("[", n) \o <<PRIMITIVE_TYPES_TO_DESC[p]>> :
                 p \in DOMAIN PRIMITIVE_TYPES_TO_DESC \ {"void"}, n \in 1..MaxDim}

InitCP ==
    /\ cacheSrc = "lib"
    /\ entrySrc = "model"
    /\ cache = <<>>
    /\ entries = <<>>
    /\ \E p \in {Java(s) : s \in JavaSpellings} \cup {JNI(s) : s \in JniSpellings} :
          th = [t \in Threads |-> IF t = "t1" THEN [IdleThread EXCEPT !.acc = <<p>>]
                                  ELSE IdleThread]
    /\ calls = 0
    /\ frees = 0

\* One more .convert() on the last value.
convert_call(t) ==
    /\ th[t].acc # <<>>
    /\ Len(th[t].acc) < 3
    /\ th' = [th EXCEPT ![t].op = "convert",
                        ![t].acc = Append(@, convert(@[Len(@)]))]
    /\ UNCHANGED <<cacheSrc, entrySrc, cache, entries, calls, frees>>

NextCP == convert_call("t1")

SpecCP == InitCP /\ [][NextCP]_vars

\* SpecConc: thread t1 looks classes up and shares its Class values with t2;
\* both threads ask for common superclasses and for assignability, in each build.
ConcTypes == {"Integer", "Number", "String", "Runnable"}

ConcNames == IF cacheSrc = "lib" THEN {JavaSpelling(ty) : ty \in ConcTypes}
             ELSE {JniSpelling(ty) : ty \in ConcTypes}

NextConc ==
    \/ \E cp \in ConcNames : lookup_class("t1", cp)
    \/ \E e \in 1..Len(entries) : clone_class("t1", "t2", e)
    \/ \E t \in Threads :
          \/ fetch_miss(t)
          \/ \E a, b \in 1..Len(entries) : common_superclass(t, a, b)
          \/ cs_lock_other(t)
          \/ cs_body(t)
          \/ cs_loop(t)
          \/ cs_root(t)
          \/ \E a, b \in 1..Len(entries) : Class_is_assignable_from(t, a, b)
          \/ Class_is_assignable_from_body(t)

SpecConc == InitCS /\ [][NextConc]_vars

\* One caller resolving classes and their interfaces, with JNI calls that may fail
\* while the interfaces are resolved.
IfTypes == {"String", "Integer", "Serializable"}

IfNames ==
    IF cacheSrc = "lib" THEN {JavaSpelling(ty) : ty \in IfTypes}
    ELSE {JniSpelling(ty) : ty \in IfTypes}

NextIf ==
    \/ \E cp \in IfNames : lookup_class("t1", cp)
    \/ fetch_miss("t1")
    \/ \E e \in 1..Len(entries) : interfaces("t1", e)
    \/ interfaces_body("t1")
    \/ interfaces_body_fail("t1")

SpecIf == InitCS /\ [][NextIf]_vars

\* src/class.rs alone: its cache functions, its entries, its is_interface.
InitClass ==
    /\ cacheSrc = "class"
    /\ entrySrc = "class"
    /\ cache = <<>>
    /\ entries = <<>>
    /\ th = [t \in Threads |-> IdleThread]
    /\ calls = 0
    /\ frees = 0

ClassModNames == {JniSpelling(ty) : ty \in ModTypes}

NextClassMod ==
    \/ \E cp \in ClassModNames : lookup_class("t1", cp)
    \/ fetch_miss("t1")
    \/ \E e \in 1..Len(entries), jvm_ok \in BOOLEAN : modifiers("t1", e, jvm_ok)
    \/ \E e \in 1..Len(entries), jvm_ok \in BOOLEAN : class_is_interface("t1", e, jvm_ok)

SpecClassMod == InitClass /\ [][NextClassMod]_vars

\* The example next to the deprecated method: thread t1 resolves classes and calls
\* common_superclass, thread t2 gets clones of t1's handles and runs the example.
ExTypes == {"Integer", "Number", "String", "Runnable", "int"}

ExNames ==
    IF cacheSrc = "lib" THEN {JavaSpelling(ty) : ty \in ExTypes}
    ELSE {JniSpelling(ty) : ty \in ExTypes}

NextEx ==
    \/ \E cp \in ExNames : lookup_class("t1", cp)
    \/ \E e \in 1..Len(entries) : clone_class("t1", "t2", e)
    \/ \E a, b \in 1..Len(entries) : common_superclass("t1", a, b)
    \/ cs_lock_other("t1") \/ cs_body("t1") \/ cs_loop("t1") \/ cs_root("t1")
    \/ \E a, b \in 1..Len(entries) : find_most_common_superclass("t2", a, b)
    \/ \E t \in Threads : fetch_miss(t)

SpecEx == InitCS /\ [][NextEx]_vars

(***************************************************************************)
(* version.rs: impl From<String> for JavaVersion (jvm.rs has the same body  *)
(* for JvmVersion).  Strings are sequences of characters.                  *)
(***************************************************************************)
MaxVerLen == 4

VersionChars == {"0", "1", "2", "3", "4", "5", "6", "7", "8", "9", ".", "x"}

\* str::split("."): the parts between the dots; a string without dot, the empty
\* one included, is its only part.
RECURSIVE Split(_, _)
Split(value, sep) ==
    IF \A i \in 1..Len(value) : value[i] # sep THEN <<value>>
    ELSE LET i == CHOOSE k \in 1..Len(value) :
                     value[k] = sep /\ \A j \in 1..(k - 1) : value[j] # sep
         IN  <<SubSeq(value, 1, i - 1)>> \o Split(SubSeq(value, i + 1, Len(value)), sep)

\* The decimal spelling of n < 100
Decimal(n) ==
    LET digit == <<"0", "1", "2", "3", "4", "5", "6", "7", "8", "9">>
    IN  IF n < 10 THEN <<digit[n + 1]>> ELSE <<digit[(n \div 10) + 1], digit[(n % 10) + 1]>>

\* JavaVersion::V<n> and JavaVersion::Invalid(value)
JavaVersion_V(n) == <<"V">> \o Decimal(n)
JavaVersion_Invalid(value) == <<"Invalid", "(">> \o value \o <<")">>

\* One `match` of from: the arm whose literal is the part, else Invalid(value).
match_version(part, lo, hi, value) ==
    IF \E n \in lo..hi : part = Decimal(n)
    THEN JavaVersion_V(CHOOSE n \in lo..hi : part = Decimal(n))
    ELSE JavaVersion_Invalid(value)

\* JavaVersion::from(value); version_parts[1] on a Vec of one part is an index
\* out of bounds, which panics.
JavaVersion_from(value) ==
    LET version_parts == Split(value, ".")
    IN  IF version_parts[1] = <<"1">>
        THEN IF Len(version_parts) < 2 THEN <<"panic">>
             ELSE match_version(version_parts[2], 0, 8, value)
        ELSE match_version(version_parts[1], 9, 23, value)

VersionStrings == UNION {[1..n -> VersionChars] : n \in 0..MaxVerLen}

InitVer ==
    /\ cacheSrc = "lib"
    /\ entrySrc = "model"
    /\ cache = <<>>
    /\ entries = <<>>
    /\ \E value \in VersionStrings :
          th = [t \in Threads |-> IF t = "t1" THEN [IdleThread EXCEPT !.arg = value]
                                  ELSE IdleThread]
    /\ calls = 0
    /\ frees = 0

\* let v: JavaVersion = value.into()
from_call(t) ==
    /\ th[t].op = "none"
    /\ LET v == JavaVersion_from(th[t].arg)
       IN  th' = [th EXCEPT ![t] =
                     IF v = <<"panic">> THEN [@ EXCEPT !.op = "from", !.pc = "panicked"]
                     ELSE [@ EXCEPT !.op = "from", !.res = OkVal(v)]]
    /\ UNCHANGED <<cacheSrc, entrySrc, cache, entries, calls, frees>>

NextVer == from_call("t1")

SpecVer == InitVer /\ [][NextVer]_vars

(***************************************************************************)
(* Claims                                                                  *)
(***************************************************************************)
Returned(t, op) == th[t].pc = "idle" /\ th[t].op = op

\* The key under which a handle is resolved when its class path is not known.
HandleKey(ty) == IF cacheSrc = "lib" THEN getName(ty) ELSE Replace(getName(ty), ".", "/")

\* C1: while free_lookup has not been called, every entry some caller or cell
\* refers to is the one entry the cache holds under its key; a lookup_class whose
\* key is present returns that entry, builds and inserts nothing and makes no
\* find_class call; a superclass or interface handle resolves to the entry cached
\* under its key.
C1_OneEntryPerKey ==
    frees = 0 =>
        /\ \A e \in LiveSet(entries, cache, th) :
              entries[e].cp \in DOMAIN cache /\ cache[entries[e].cp] = e
        /\ \A t \in Threads :
              /\ (Returned(t, "lookup_class") /\ th[t].res.tag = "ok") =>
                    /\ th[t].key \in DOMAIN cache
                    /\ th[t].res.id = cache[th[t].key]
              /\ (th[t].op = "lookup_class" /\ th[t].hit) =>
                    /\ Returned(t, "lookup_class")
                    /\ th[t].res.tag = "ok"
                    /\ th[t].finds = 0
                    /\ th[t].built = {}
                    /\ th[t].ins = {}
        /\ \A e \in 1..Len(entries) :
              /\ entries[e].superclass > 0 =>
                    entries[e].superclass = cache[HandleKey(get_superclass(entries[e].inner))]
              /\ entries[e].interfaces.set =>
                    \A i \in 1..Len(entries[e].interfaces.v) :
                        entries[e].interfaces.v[i] =
                            cache[HandleKey(getInterfaces(entries[e].inner)[i])]

\* C1 witness: a lookup_class found its key present and returned, after a
\* superclass handle was resolved through the cache.
C1_Witness ==
    /\ frees = 0
    /\ \E t \in Threads : Returned(t, "lookup_class") /\ th[t].hit /\ th[t].res.tag = "ok"
    /\ \E e \in 1..Len(entries) : entries[e].superclass > 0

\* C2: two lookup_class calls of one identifier that both missed the cache (no
\* free_lookup involved) return the same entry, exactly one entry was inserted
\* for the identifier, and the entry the loser built is referred to by nobody.
C2_ConcurrentLookup ==
    frees = 0 =>
        \A t1, t2 \in Threads :
            (/\ t1 # t2
             /\ Returned(t1, "lookup_class") /\ Returned(t2, "lookup_class")
             /\ th[t1].key = th[t2].key
             /\ ~th[t1].hit /\ ~th[t2].hit
             /\ th[t1].res.tag = "ok" /\ th[t2].res.tag = "ok") =>
                /\ th[t1].res.id = th[t2].res.id
                /\ cache[th[t1].key] = th[t1].res.id
                /\ Cardinality(th[t1].ins \cup th[t2].ins) = 1
                /\ Cardinality(th[t1].built \cup th[t2].built) = 2
                /\ \A l \in (th[t1].built \cup th[t2].built) \ (th[t1].ins \cup th[t2].ins) :
                      l \notin LiveSet(entries, cache, th)

\* C2 witness: both threads missed the cache for the same identifier and returned.
C2_Witness ==
    /\ frees = 0
    /\ Returned("t1", "lookup_class") /\ Returned("t2", "lookup_class")
    /\ th["t1"].key = th["t2"].key
    /\ ~th["t1"].hit /\ ~th["t2"].hit
    /\ th["t1"].res.tag = "ok" /\ th["t2"].res.tag = "ok"

\* C3: the cache never holds two entries for one type: the key of a handle
\* resolution equals the key of lookup_class.
C3_OneEntryPerType ==
    \A k1, k2 \in DOMAIN cache :
        entries[cache[k1]].inner = entries[cache[k2]].inner => k1 = k2

\* The strict superclasses of a type, nearest first.
RECURSIVE SuperChain(_)
SuperChain(ty) ==
    IF get_superclass(ty) = NoType THEN <<>>
    ELSE <<get_superclass(ty)>> \o SuperChain(get_superclass(ty))

\* The first element of chain ch whose index is in idx, NoType if idx is empty.
FirstAt(ch, idx) ==
    IF idx = {} THEN NoType ELSE ch[CHOOSE i \in idx : \A j \in idx : i <= j]

\* The nearest strict superclass of x that y is assignable to.
NearestCommon(x, y) ==
    LET ch == SuperChain(x)
    IN  FirstAt(ch, {i \in 1..Len(ch) : isAssignableFrom(ch[i], y)})

\* The nearest strict superclass c of x for which y.is_assignable_from(c) is true.
FirstPassing(x, y) ==
    LET ch == SuperChain(x)
    IN  FirstAt(ch, {i \in 1..Len(ch) : inner_is_assignable_from(y, ch[i])})

TypeOf(e) == entries[e].inner
KindOf(e) == JavaTypes[TypeOf(e)].kind
CsCall(t) == th[t].op = "common_superclass"
CsReturned(t) == Returned(t, "common_superclass")

\* Neither operand of the call is assignable from the other.
Unrelated(t) ==
    /\ ~is_assignable_from(entries, th[t].b, th[t].a)
    /\ ~is_assignable_from(entries, th[t].a, th[t].b)

\* Both operands carry their self reference.
SelfRefsSet(t) ==
    /\ entries[th[t].a].self_cached_weak_ref # 0
    /\ entries[th[t].b].self_cached_weak_ref # 0

\* No mutex was poisoned by a panic.
NoPanic == \A e \in 1..Len(entries) : ~entries[e].poisoned

ReturnsType(t, ty) ==
    th[t].res.tag = "ok" /\ th[t].res.id > 0 /\ TypeOf(th[t].res.id) = ty

\* The call returned the entry the cache holds for java/lang/Object.
ReturnsRoot(t) ==
    /\ th[t].res.tag = "ok"
    /\ OBJECT_JNI_CP \in DOMAIN cache
    /\ th[t].res.id = cache[OBJECT_JNI_CP]

\* C4: for two classes, neither assignable from the other, common_superclass
\* returns the nearest class on a's superclass chain that is also an ancestor of
\* b, whatever its depth on the chain (operands with their self reference set,
\* no panic before).
C4_NearestCommonAncestor ==
    \A t \in Threads :
        (/\ CsReturned(t) /\ NoPanic /\ SelfRefsSet(t) /\ Unrelated(t)
         /\ KindOf(th[t].a) = "class" /\ KindOf(th[t].b) = "class") =>
            ReturnsType(t, NearestCommon(TypeOf(th[t].a), TypeOf(th[t].b)))

\* C5: common_superclass(a, b) returns a's entry when b.is_assignable_from(a),
\* and otherwise b's entry when a.is_assignable_from(b); a class and an interface
\* it implements give the class's entry in either order (no panic before).
C5_AssignableShortCircuit ==
    \A t \in Threads :
        (CsReturned(t) /\ NoPanic) =>
            /\ is_assignable_from(entries, th[t].b, th[t].a) => th[t].res = Ok(th[t].a)
            /\ (/\ ~is_assignable_from(entries, th[t].b, th[t].a)
                /\ is_assignable_from(entries, th[t].a, th[t].b)) => th[t].res = Ok(th[t].b)
            /\ (/\ KindOf(th[t].a) = "class" /\ KindOf(th[t].b) = "interface"
                /\ TypeOf(th[t].b) \in Ancestors(TypeOf(th[t].a))) => th[t].res = Ok(th[t].a)
            /\ (/\ KindOf(th[t].b) = "class" /\ KindOf(th[t].a) = "interface"
                /\ TypeOf(th[t].a) \in Ancestors(TypeOf(th[t].b))) => th[t].res = Ok(th[t].b)

\* C6: when neither operand is assignable from the other and one of them is an
\* interface, common_superclass returns the cache's java/lang/Object entry
\* (operands with their self reference set, no panic before).
C6_InterfaceGivesRoot ==
    \A t \in Threads :
        (/\ CsReturned(t) /\ NoPanic /\ SelfRefsSet(t) /\ Unrelated(t)
         /\ (KindOf(th[t].a) = "interface" \/ KindOf(th[t].b) = "interface")) =>
            ReturnsRoot(t)

\* C7: when neither operand is assignable from the other and neither is an
\* interface, common_superclass returns the first cursor on a's superclass chain
\* for which b.is_assignable_from(cursor) is true, and the root entry only when
\* no cursor passes (operands with their self reference set, no panic before).
C7_ChainWalk ==
    \A t \in Threads :
        (/\ CsReturned(t) /\ NoPanic /\ SelfRefsSet(t) /\ Unrelated(t)
         /\ KindOf(th[t].a) # "interface" /\ KindOf(th[t].b) # "interface") =>
            LET first == FirstPassing(TypeOf(th[t].a), TypeOf(th[t].b))
            IN  IF first = NoType THEN ReturnsRoot(t) ELSE ReturnsType(t, first)

\* C8: common_superclass(X, X) on one cached entry returns X: the call neither
\* blocks nor panics, and its result is X's entry.
C8_Reflexive ==
    \A t \in Threads :
        (CsCall(t) /\ th[t].a = th[t].b) =>
            /\ th[t].pc \notin {"deadlock", "panicked"}
            /\ th[t].pc = "idle" => th[t].res = Ok(th[t].a)

\* C9: common_superclass of two distinct primitive types returns the cache's
\* java/lang/Object entry (no panic before).
C9_PrimitivesGiveRoot ==
    \A t \in Threads :
        (/\ CsReturned(t) /\ NoPanic
         /\ KindOf(th[t].a) = "primitive" /\ KindOf(th[t].b) = "primitive"
         /\ TypeOf(th[t].a) # TypeOf(th[t].b)) =>
            ReturnsRoot(t)

\* C10: every call of common_superclass comes to an end, and its loop runs at
\* most as many times as a's superclass chain is high, the cursor of iteration
\* n being the n-th strict superclass of a.
C10_Terminates ==
    /\ [](\A t \in Threads :
            CsCall(t) =>
                /\ th[t].iters <= Len(SuperChain(TypeOf(th[t].a)))
                /\ th[t].pc = "cs_loop" =>
                      TypeOf(th[t].cur) = SuperChain(TypeOf(th[t].a))[th[t].iters + 1])
    /\ \A t \in Threads :
            (CsCall(t) /\ th[t].pc # "idle") ~> (th[t].pc \in {"idle", "panicked"})

\* C11: interfaces() returns one entry per interface the JVM reports as directly
\* declared by the entry's handle, in the JVM's order and nothing else (none
\* inherited, the empty list when none is declared).
C11_DirectInterfaces ==
    \A t \in Threads :
        (Returned(t, "interfaces") /\ th[t].res.tag = "ok") =>
            LET declared == JavaTypes[TypeOf(th[t].a)].ifs
            IN  /\ Len(th[t].res.list) = Len(declared)
                /\ \A i \in 1..Len(declared) : TypeOf(th[t].res.list[i]) = declared[i]

\* C11 witness: interfaces() returned the two interfaces of a class that declares
\* two, and the empty list is the answer for a type that declares none.
C11_Witness ==
    /\ Returned("t1", "interfaces")
    /\ th["t1"].res.tag = "ok"
    /\ Len(th["t1"].res.list) = 2
    /\ \E e \in 1..Len(entries) :
          entries[e].interfaces.set /\ JavaTypes[TypeOf(e)].ifs = <<>>

\* C12: while free_lookup has not been called, every superclass() call succeeds
\* and returns the cache's entry for the JVM's superclass of the handle, and None
\* exactly when the JVM reports no superclass.
C12_SuperclassOfHandle ==
    \A t \in Threads :
        (Returned(t, "superclass") /\ frees = 0) =>
            LET s == get_superclass(TypeOf(th[t].a))
            IN  /\ th[t].res.tag = "ok"
                /\ (s = NoType) <=> (th[t].res.id = 0)
                /\ s # NoType =>
                      /\ TypeOf(th[t].res.id) = s
                      /\ th[t].res.id = cache[HandleKey(s)]

\* C12 witness: with the cache never freed, superclass() returned None for a
\* handle without superclass after it had returned an entry for another handle.
C12_Witness ==
    /\ frees = 0
    /\ Returned("t1", "superclass")
    /\ th["t1"].res = Ok(0)
    /\ \E e \in 1..Len(entries) : entries[e].superclass > 0

Fields == {"class_name", "modifiers", "superclass", "interfaces"}

\* The cell of field f of entry e has a value.
CellSet(e, f) ==
    CASE f = "class_name" -> entries[e].class_name.set
      [] f = "modifiers"  -> entries[e].modifiers >= 0
      [] f = "superclass" -> entries[e].superclass >= 0
      [] f = "interfaces" -> entries[e].interfaces.set

\* C13: as long as the JVM calls for a field of an entry succeed, exactly one
\* such call is made for it, and every call of the accessor returns the one
\* value: the name, the modifiers, the memoized superclass entry (or None), the
\* memoized list of interface entries.
C13_FetchedOnce ==
    /\ \A e \in 1..Len(entries) : \A f \in Fields :
          entries[e].fails[f] = 0 =>
              /\ entries[e].fetches[f] <= 1
              /\ CellSet(e, f) <=> (entries[e].fetches[f] = 1)
    /\ \A t \in Threads :
          (th[t].pc = "idle" /\ th[t].res.tag = "ok") =>
              /\ th[t].op = "name" => th[t].res.val = getName(TypeOf(th[t].a))
              /\ th[t].op = "modifiers" =>
                    th[t].res.val = <<JavaTypes[TypeOf(th[t].a)].mods % 65536>>
              /\ th[t].op = "interfaces" => th[t].res.list = entries[th[t].a].interfaces.v
              /\ th[t].op = "superclass" => th[t].res.id = entries[th[t].a].superclass

\* C14: once the JVM call made for a field of an entry has failed, the field
\* is settled: its cell never gets a value, no further JVM call is made for it,
\* and every call of the accessor on the entry returns the failure.
C14_FailureSettled ==
    /\ \A e \in 1..Len(entries) : \A f \in Fields :
          entries[e].fails[f] >= 1 => (entries[e].fetches[f] = 1 /\ ~CellSet(e, f))
    /\ \A t \in Threads :
          (/\ th[t].pc = "idle"
           /\ th[t].op \in {"name", "modifiers"}
           /\ entries[th[t].a].fails[IF th[t].op = "name" THEN "class_name"
                                     ELSE "modifiers"] >= 1) =>
              th[t].res = Err("JniError")

\* The entries built since the last free_lookup.
BuiltSinceFree == {e \in 1..Len(entries) : entries[e].gen = frees}

\* C15: when free_lookup returns the cache is empty; afterwards the cache holds
\* only entries built since, and a lookup_class that misses succeeds with a newly
\* built entry, not one from before the clear, the cache size being 1 when it is
\* the only entry built since the clear.
C15_FreshAfterFree ==
    /\ Returned("t1", "free_lookup") => Cardinality(DOMAIN cache) = 0
    /\ \A k \in DOMAIN cache : cache[k] \in BuiltSinceFree
    /\ (Returned("t1", "lookup_class") /\ frees >= 1 /\ ~th["t1"].hit) =>
          /\ th["t1"].res.tag = "ok"
          /\ th["t1"].res.id \in BuiltSinceFree
          /\ cache[th["t1"].key] = th["t1"].res.id
          /\ BuiltSinceFree = {th["t1"].res.id} => Cardinality(DOMAIN cache) = 1

\* C15 witness: after a free_lookup, lookup_class of a key resolved before the
\* clear returned, the cache holding that one entry.
C15_Witness ==
    /\ Returned("t1", "lookup_class")
    /\ frees >= 1
    /\ th["t1"].res.tag = "ok"
    /\ \E e \in 1..Len(entries) : entries[e].gen < frees /\ entries[e].cp = th["t1"].key
    /\ Cardinality(DOMAIN cache) = 1

\* C16: a lookup_class that misses builds and inserts one entry, the one for
\* its key, with every cell of it still empty (no superclass or interface was
\* resolved), and the cache holds one entry per distinct key resolved since it
\* was last empty: size 1 after a single lookup.
C16_LookupAddsOne ==
    /\ Cardinality(DOMAIN cache) = Cardinality({entries[e].cp : e \in BuiltSinceFree})
    /\ (Returned("t1", "lookup_class") /\ ~th["t1"].hit /\ th["t1"].res.tag = "ok") =>
          LET x == th["t1"].res.id
          IN  /\ th["t1"].built = {x}
              /\ th["t1"].ins = {x}
              /\ entries[x].cp = th["t1"].key
              /\ cache[th["t1"].key] = x
              /\ entries[x].superclass = -1
              /\ ~entries[x].interfaces.set
              /\ entries[x].fetches = NoFetches
              /\ Len(entries) = 1 => Cardinality(DOMAIN cache) = 1

\* C16 witness: a lookup_class that missed returned while the cache already
\* held another entry, after a first lookup on the empty cache.
C16_Witness ==
    /\ Returned("t1", "lookup_class")
    /\ ~th["t1"].hit
    /\ th["t1"].res.tag = "ok"
    /\ frees = 0
    /\ Cardinality(DOMAIN cache) = 2

\* C17: an accessor called after free_lookup on an entry built before it
\* returns what it returned, or would have returned, before the clear: the name
\* and modifiers of the handle, the entries of the declared interfaces, the
\* memoized superclass entry when one was memoized, and None only for a handle
\* without superclass.
C17_SnapshotAfterFree ==
    \A t \in Threads :
        (/\ th[t].pc = "idle" /\ th[t].res.tag = "ok"
         /\ th[t].op \in {"name", "modifiers", "interfaces", "superclass"}
         /\ entries[th[t].a].gen < frees) =>
            LET e == th[t].a
            IN  /\ th[t].op = "name" => th[t].res.val = getName(TypeOf(e))
                /\ th[t].op = "modifiers" =>
                      th[t].res.val = <<JavaTypes[TypeOf(e)].mods % 65536>>
                /\ th[t].op = "interfaces" =>
                      [i \in 1..Len(th[t].res.list) |-> TypeOf(th[t].res.list[i])]
                          = JavaTypes[TypeOf(e)].ifs
                /\ th[t].op = "superclass" =>
                      /\ (th[t].res.id = 0) <=> (get_superclass(TypeOf(e)) = NoType)
                      /\ entries[e].superclass > 0 => th[t].res.id = entries[e].superclass

\* C18: common_superclass with an operand built before the last free_lookup
\* returns DanglingClassError and no entry (no panic before).
C18_DanglingAfterFree ==
    \A t \in Threads :
        (/\ CsReturned(t) /\ NoPanic
         /\ (entries[th[t].a].gen < frees \/ entries[th[t].b].gen < frees)) =>
            th[t].res = Err("DanglingClassError")

\* C19: every entry in the cache has its self reference set, and it upgrades to
\* the entry itself; while free_lookup has not been called common_superclass
\* does not return DanglingClassError.
C19_SelfRefInitialised ==
    /\ \A k \in DOMAIN cache :
          upgrade(entries, cache, th, entries[cache[k]].self_cached_weak_ref) = cache[k]
    /\ \A t \in Threads :
          (CsReturned(t) /\ frees = 0) => th[t].res.err # "DanglingClassError"

C21_PrimitivePath ==
    /\ \A p \in DOMAIN PRIMITIVE_TYPES_TO_DESC :
          /\ IsPrimitiveName(<<p>>)
          /\ as_jni(<<p>>) = <<p>>
          /\ PRIMITIVE_TYPES_TO_DESC[p] \in DOMAIN DESC_TO_WRAPPER_CLASS_CP
    /\ (Returned("t1", "lookup_class") /\ IsPrimitiveName(th["t1"].arg)) =>
          /\ th["t1"].finds = 0
          /\ th["t1"].res.tag = "ok"
          /\ th["t1"].key = th["t1"].arg
          /\ (th["t1"].key \in DOMAIN cache /\ cache[th["t1"].key] = th["t1"].res.id)
          /\ JavaTypes[entries[th["t1"].res.id].inner].kind = "primitive"
          /\ JavaTypes[entries[th["t1"].res.id].inner].segs = th["t1"].arg
    /\ (<<"int">> \in DOMAIN cache /\ as_jni(JavaSpelling("Integer")) \in DOMAIN cache) =>
          /\ <<"int">> # as_jni(JavaSpelling("Integer"))
          /\ cache[<<"int">>] # cache[as_jni(JavaSpelling("Integer"))]
          /\ entries[cache[<<"int">>]].inner = "int"
          /\ entries[cache[as_jni(JavaSpelling("Integer"))]].inner = "Integer"
    /\ (/\ Returned("t1", "name") /\ th["t1"].res.tag = "ok"
        /\ IsPrimitiveName(entries[th["t1"].a].cp)) =>
          th["t1"].res.val = entries[th["t1"].a].cp

\* C21 witness: name() returned for the entry of "int" while the cache holds
\* both "int" and java.lang.Integer.
C21_Witness ==
    /\ Returned("t1", "name")
    /\ th["t1"].res.tag = "ok"
    /\ entries[th["t1"].a].cp = <<"int">>
    /\ <<"int">> \in DOMAIN cache
    /\ as_jni(JavaSpelling("Integer")) \in DOMAIN cache

\* C22: a lookup_class the JVM cannot find returns an error after exactly one
\* find_class call, having built and inserted no entry, and no step of a
\* lookup_class call that does not return an entry changes the cache or the
\* entries; an array of void of any number of dimensions is not found.
C22_NotFoundNoRetry ==
    /\ [](/\ \A n \in 1..MaxDim :
                find_class(as_jni(<<"void">> \o Repeat("[]", n))) = NoType
          /\ \A t \in Threads :
                (Returned(t, "lookup_class") /\ th[t].res.tag = "err") =>
                    /\ th[t].finds = 1
                    /\ ~th[t].hit
                    /\ th[t].built = {}
                    /\ th[t].ins = {}
                    /\ th[t].key \notin DOMAIN cache)
    /\ [][\A t \in Threads :
            (/\ th'[t] # th[t]
             /\ th'[t].op = "lookup_class"
             /\ th'[t].res.tag # "ok") =>
                (cache' = cache /\ entries' = entries)]_vars

\* C22 witness: lookup_class("void[]") returned an error while the cache holds
\* an entry.
C22_Witness ==
    \E t \in Threads :
        /\ Returned(t, "lookup_class")
        /\ th[t].arg = <<"void", "[]">>
        /\ th[t].res.tag = "err"
        /\ th[t].finds = 1
        /\ DOMAIN cache # {}

\* The entry locks (MutexGuards) thread t holds.
LocksHeld(t) == {e \in 1..Len(entries) : entries[e].lock = t}

\* C23: no thread holds the locks of two entries, and no step in which a thread
\* goes through the cache lock (a step that builds an entry under it, or the
\* cache check of the fallback to java/lang/Object) is taken by a thread that
\* holds an entry lock.
C23_LockDiscipline ==
    /\ [](\A t \in Threads : Cardinality(LocksHeld(t)) <= 1)
    /\ [][\A t \in Threads :
            (/\ th'[t] # th[t]
             /\ \/ Len(entries') > Len(entries)
                \/ th[t].pc = "cs_root")
                => LocksHeld(t) = {}]_vars

\* C24: a thread that holds a Class of an entry with a memoized field and is
\* about to call its accessor does not have to wait: the entry's lock is not
\* held by another thread, whatever call that thread is in.
C24_MemoReadNeverWaits ==
    \A t \in Threads : \A e \in th[t].held :
        (th[t].pc = "idle" /\ \E f \in Fields : CellSet(e, f)) =>
            entries[e].lock \in {NoThread, t}

\* C25: the cache is cleared in one step.  A step that completes a free_lookup
\* leaves the map empty; every other step leaves each key with its entry (it
\* can only add keys); so the map a concurrent lookup_class, superclass() or
\* interfaces() reads never holds an entry built before the last clear.
C25_ClearAtomic ==
    /\ [](\A k \in DOMAIN cache : entries[cache[k]].gen = frees)
    /\ [][/\ frees' # frees => cache' = <<>>
          /\ frees' = frees =>
                /\ DOMAIN cache \subseteq DOMAIN cache'
                /\ \A k \in DOMAIN cache : cache'[k] = cache[k]]_vars

\* C25 witness: free_lookup returned on a cache of two entries while the other
\* thread is inside lookup_class, superclass() or interfaces().
C25_Witness ==
    \E t, u \in Threads :
        /\ Returned(u, "free_lookup")
        /\ th[t].pc \in {"fetch_miss", "superclass", "interfaces"}
        /\ Len(entries) >= 2
        /\ cache = <<>>

\* The memoized cells of an entry.
Cells(c) == <<c.class_name, c.modifiers, c.superclass, c.interfaces>>

\* C26: a.is_assignable_from(b) returns, and what it returns is
\* Class#isAssignableFrom of a's handle with b's handle, after exactly one query
\* of the JVM; for an entry c and the entry s its superclass() returned,
\* s.is_assignable_from(c) is true; no step of the call changes a memoized cell
\* of an entry.
C26_AssignableQuery ==
    /\ [](\A t \in Threads :
            th[t].op = "is_assignable_from" =>
                /\ th[t].pc \notin {"deadlock", "panicked"}
                /\ (th[t].pc = "idle" /\ NoPanic) =>
                      /\ th[t].res = OkVal(<<BoolTok(isAssignableFrom(TypeOf(th[t].a),
                                                                     TypeOf(th[t].b)))>>)
                      /\ th[t].queries = 1
                      /\ entries[th[t].b].superclass = th[t].a =>
                            th[t].res.val = <<"true">>)
    /\ [][\A t \in Threads :
            (th'[t] # th[t] /\ th'[t].op = "is_assignable_from") =>
                /\ Len(entries') = Len(entries)
                /\ \A e \in 1..Len(entries) : Cells(entries'[e]) = Cells(entries[e])]_vars

\* Bit `flag` (a power of two) is set in m.
HasBit(m, flag) == (m \div flag) % 2 = 1

\* C27: is_interface() returns true exactly when bit 0x0200 is set in the
\* entry's memoized modifiers (true for java.lang.Comparable, false for
\* java.lang.Integer); a step of the call makes at most one JVM call, for the
\* modifiers, and none when they are memoized.
C27_IsInterface ==
    /\ [](\A t \in Threads :
            (Returned(t, "is_interface") /\ th[t].res.tag = "ok") =>
                /\ entries[th[t].a].modifiers >= 0
                /\ th[t].res.val = <<BoolTok(HasBit(entries[th[t].a].modifiers, 512))>>
                /\ TypeOf(th[t].a) = "Comparable" => th[t].res.val = <<"true">>
                /\ TypeOf(th[t].a) = "Integer" => th[t].res.val = <<"false">>)
    /\ [][\A t \in Threads :
            (th'[t] # th[t] /\ th'[t].op = "is_interface") =>
                \A e \in 1..Len(entries) :
                    /\ \A f \in Fields \ {"modifiers"} :
                          entries'[e].fetches[f] = entries[e].fetches[f]
                    /\ entries'[e].fetches.modifiers =
                          entries[e].fetches.modifiers
                              + (IF e = th'[t].a /\ entries[e].modifiers < 0 THEN 1 ELSE 0)]_vars

\* C27 witness: is_interface() returned true for java.lang.Comparable after it
\* returned false for another entry.
C27_Witness ==
    /\ Returned("t1", "is_interface")
    /\ th["t1"].res = OkVal(<<"true">>)
    /\ TypeOf(th["t1"].a) = "Comparable"
    /\ \E e \in 1..Len(entries) : TypeOf(e) = "Integer" /\ entries[e].modifiers >= 0

\* C28: is_annotation() returns true exactly when bit 0x2000 is set in the
\* entry's memoized modifiers: true for java.lang.Override, false for
\* java.lang.Integer and for java.lang.Comparable.
C28_IsAnnotation ==
    \A t \in Threads :
        (Returned(t, "is_annotation") /\ th[t].res.tag = "ok") =>
            /\ entries[th[t].a].modifiers >= 0
            /\ th[t].res.val = <<BoolTok(HasBit(entries[th[t].a].modifiers, 8192))>>
            /\ TypeOf(th[t].a) = "Override" => th[t].res.val = <<"true">>
            /\ TypeOf(th[t].a) \in {"Integer", "Comparable"} => th[t].res.val = <<"false">>

\* The bit a flag name stands for.
FlagBit(flag) == IF flag \in DOMAIN Modifiers THEN Modifiers[flag] ELSE ModifierBits[flag]

\* C29: for every u16 m and each of the 18 flags F, is_F_bits(m) is true exactly
\* when the bit of F is set in m.
C29_RawPredicates ==
    /\ Cardinality(FlagNames) = 18
    /\ \A t \in Threads :
          th[t].op = "is_bits" =>
              th[t].res.val = <<BoolTok(HasBit(th[t].arg[1], FlagBit(th[t].key[1])))>>

\* C30: for every legal spelling s in either dialect, converting twice gives
\* back the value: Java(s).convert().convert() = Java(s) and
\* JNI(s).convert().convert() = JNI(s).
C30_RoundTrip ==
    \A t \in Threads :
        (th[t].op = "convert" /\ Len(th[t].acc) = 3) => th[t].acc[3] = th[t].acc[1]

\* The number of "[]" pairs that end a Java spelling.
RECURSIVE TrailingBrackets(_)
TrailingBrackets(s) ==
    IF s # <<>> /\ s[Len(s)] = "[]" THEN 1 + TrailingBrackets(SubSeq(s, 1, Len(s) - 1))
    ELSE 0

\* The dotted name a Java spelling starts with, with slashes for its dots.
SlashedName(s) ==
    [i \in 1..(Len(s) - TrailingBrackets(s)) |-> IF i % 2 = 0 THEN "/" ELSE s[i]]

\* C31: Java(s).convert() is the JNI value of: the slashed name when s has no
\* brackets (a bare primitive name stays as it is); for n >= 1 pairs of
\* brackets, n "[" followed by the descriptor letter of a primitive element, or
\* by L, the slashed name and ";" for a class element.
C31_JavaToJni ==
    \A t \in Threads :
        (/\ th[t].op = "convert" /\ Len(th[t].acc) >= 2
         /\ th[t].acc[1].dialect = "Java") =>
            LET s == th[t].acc[1].cp
                n == TrailingBrackets(s)
                nm == SlashedName(s)
            IN  /\ th[t].acc[2].dialect = "JNI"
                /\ n = 0 => th[t].acc[2].cp = nm
                /\ (n >= 1 /\ Len(nm) = 1 /\ nm[1] \in DOMAIN PRIMITIVE_TYPES_TO_DESC) =>
                      th[t].acc[2].cp = Repeat("[", n) \o <<PRIMITIVE_TYPES_TO_DESC[nm[1]]>>
                /\ (n >= 1 /\ ~(Len(nm) = 1 /\ nm[1] \in DOMAIN PRIMITIVE_TYPES_TO_DESC)) =>
                      th[t].acc[2].cp = Repeat("[", n) \o <<"L">> \o nm \o <<";">>

\* C31 witness: a two-dimensional array of int was converted, after which the
\* value is [[I.
C31_Witness ==
    /\ th["t1"].op = "convert"
    /\ Len(th["t1"].acc) >= 2
    /\ th["t1"].acc[1] = Java(<<"int", "[]", "[]">>)
    /\ th["t1"].acc[2] = JNI(<<"[", "[", "I">>)

\* The owners of strong references (Arc clones) to entry e: cache keys, threads,
\* and live entries that hold e in their interfaces cell.
StrongOwners(e) ==
    {<<"key", k>> : k \in {k \in DOMAIN cache : cache[k] = e}}
        \cup {<<"thread", t>> : t \in {t \in Threads : e \in ThreadRefs(th[t])}}
        \cup {<<"entry", x>> : x \in {x \in LiveSet(entries, cache, th) :
                                         e \in Range(entries[x].interfaces.v)}}

C33_CacheOnlyGrows ==
    /\ [][frees' = frees =>
            \A k \in DOMAIN cache : k \in DOMAIN cache' /\ cache'[k] = cache[k]]_vars
    /\ [](\A t \in Threads :
            (/\ Returned(t, "lookup_class") /\ th[t].res.tag = "ok"
             /\ entries[th[t].res.id].gen = frees) =>
                (th[t].key \in DOMAIN cache /\ cache[th[t].key] = th[t].res.id))

\* C33 witness: common_superclass returned after building an entry for its walk,
\* on a cache of at least two keys.
C33_Witness ==
    /\ CsReturned("t1")
    /\ th["t1"].res.tag = "ok"
    /\ th["t1"].built # {}
    /\ Cardinality(DOMAIN cache) >= 2

\* C34: an entry common_superclass(a, b) returns for two non-primitive operands
\* is a supertype of both: its type is assignable from a's and from b's.
C34_CommonSupertype ==
    \A t \in Threads :
        (/\ CsReturned(t) /\ th[t].res.tag = "ok"
         /\ KindOf(th[t].a) # "primitive" /\ KindOf(th[t].b) # "primitive") =>
            /\ isAssignableFrom(TypeOf(th[t].res.id), TypeOf(th[t].a))
            /\ isAssignableFrom(TypeOf(th[t].res.id), TypeOf(th[t].b))

\* C35: when common_superclass(a, b) and common_superclass(b, a) have both
\* returned (no panic before), either both returned an error or both returned an
\* entry, and the two entries are of the same type.
C35_Symmetric ==
    \A t, u \in Threads :
        (/\ CsReturned(t) /\ CsReturned(u) /\ NoPanic
         /\ th[t].a = th[u].b /\ th[t].b = th[u].a) =>
            /\ th[t].res.tag = th[u].res.tag
            /\ th[t].res.tag = "ok" => TypeOf(th[t].res.id) = TypeOf(th[u].res.id)

\* A thread blocked in other.lock() of Class::common_superclass or of
\* Class::is_assignable_from, on an entry whose lock thread u holds.
WaitsFor(t, u) ==
    /\ th[t].pc \in {"cs_lock_other", "iaf_lock_other"}
    /\ entries[th[t].b].lock = u

\* C36: concurrent resolver calls cannot deadlock: no reachable state has two
\* threads that are each blocked on an entry lock the other one holds (one thread
\* in common_superclass(a, b) or a.is_assignable_from(b), the other in the same
\* operation with the operands swapped), so both calls can still return.
C36_NoDeadlock ==
    \A t, u \in Threads : t # u => ~(WaitsFor(t, u) /\ WaitsFor(u, t))

\* C37: when interfaces() has returned an error because a JNI call failed, the
\* cache holds exactly what it held before the call: no entry inserted during the
\* failed call is in the cache.
C37_FailedInterfacesRollBack ==
    (/\ Returned("t1", "interfaces")
     /\ th["t1"].res = Err("JniError")) =>
        th["t1"].ins \cap Range(cache) = {}

\* C39: Class::is_interface of src/class.rs returns true when the entry's
\* memoized modifiers have the Interface bit 0x0200 set and false when they do not.
C39_ClassIsInterface ==
    (/\ Returned("t1", "class_is_interface")
     /\ th["t1"].res.tag = "ok") =>
        LET e == th["t1"].a
        IN  /\ entries[e].modifiers >= 0
            /\ th["t1"].res.val =
                  <<BoolTok(HasBit(entries[e].modifiers, 512))>>

ExReturned(t) == Returned(t, "find_most_common_superclass")

\* C38: for a pair of entries on which both ClassInternal::common_superclass and
\* the example find_most_common_superclass have returned (no panic before), both
\* returned an entry or both an error, and the entries are of the same type.
C38_ExampleAgrees ==
    \A t, u \in Threads :
        (/\ CsReturned(t) /\ ExReturned(u) /\ NoPanic
         /\ th[t].a = th[u].a /\ th[t].b = th[u].b) =>
            /\ th[t].res.tag = th[u].res.tag
            /\ th[t].res.tag = "ok" => TypeOf(th[t].res.id) = TypeOf(th[u].res.id)

\* The characters of s before its first dot, and those between the first dot and
\* the second.
FirstPart(s) ==
    IF \E i \in 1..Len(s) : s[i] = "."
    THEN SubSeq(s, 1, (CHOOSE i \in 1..Len(s) : s[i] = "." /\ \A j \in 1..(i - 1) : s[j] # ".") - 1)
    ELSE s
AfterFirstPart(s) == SubSeq(s, Len(FirstPart(s)) + 2, Len(s))
SecondPart(s) == FirstPart(AfterFirstPart(s))

\* C40: JavaVersion::from(s) yields a value for every string s and never fails:
\* V0..V8 when the first dot-separated part is "1" and the second is 0..8,
\* V9..V23 when the first part is 9..23, and Invalid(s) for every other string.
C40_VersionFrom ==
    th["t1"].op = "from" =>
        LET s == th["t1"].arg
        IN  /\ th["t1"].pc # "panicked"
            /\ th["t1"].res.tag = "ok"
            /\ th["t1"].res.val =
                  IF FirstPart(s) = <<"1">> /\ \E n \in 0..8 : SecondPart(s) = Decimal(n)
                  THEN <<"V">> \o SecondPart(s)
                  ELSE IF \E n \in 9..23 : FirstPart(s) = Decimal(n)
                  THEN <<"V">> \o FirstPart(s)
                  ELSE <<"Invalid", "(">> \o s \o <<")">>

====
